---------------------------- MODULE Spec2Model ----------------------------
(***************************************************************************)
(* A model of the netmiko session automaton as driven by the Mellanox      *)
(* MLNX-OS, 6WIND, F5 and OneAccess drivers, and of the functions of       *)
(* utilities.py.                                                           *)
(*                                                                         *)
(* One session talks to one simulated device over a channel.  A driver     *)
(* method is a sequence of steps, one per channel interaction (a mode      *)
(* check, a write, a read); pc is the position inside the running method   *)
(* and stack holds the callers' frames.  An exception unwinds every frame  *)
(* (none of the modelled methods catches anything).                        *)
(*                                                                         *)
(* Text is a sequence of tokens: "switch (config) #" is                    *)
(* <<"switch", "(config", "#">>; `s in text` of the source is In(s, text). *)
(***************************************************************************)
EXTENDS Integers, Sequences, FiniteSets, TLC

VARIABLES
    profile,            \* the driver class of the session
    dev,                \* the simulated device: [priv, depth, honest]
    chan,               \* device output not yet read from the channel
    base_prompt,        \* self.base_prompt
    global_cmd_verify,  \* self.global_cmd_verify: "None", "True" or "False"
    pc,                 \* position inside the running method, "idle" between calls
    stack,              \* frames of the callers: [pc, output]
    output,             \* the running method's local `output`
    check_count,        \* the local of MellanoxMlnxosSSH.exit_config_mode
    call,               \* the call in progress or last made: [op, k, snap]
    log,                \* what the call did on the channel, in order
    result,             \* how the last call ended
    raised,             \* every <<raise site, error kind>> seen so far
    drifts,             \* device-side changes made during the call
    received,           \* what the decorated function was last called with
    applied,            \* the utility function applied last: its inputs and outcome
    ansi_escape_codes,  \* self.ansi_escape_codes
    todo                \* the statements of the running method's body still to run

vars == <<profile, dev, chan, base_prompt, global_cmd_verify, pc, stack, output,
          check_count, call, log, result, raised, drifts, received, applied,
          ansi_escape_codes, todo>>

-----------------------------------------------------------------------------
(* Bounds of the model *)

\* deepest nesting of configuration contexts a device starts in
MaxDepth == 14

\* device-side changes (another operator acting on the device) during one call
MaxDrift == 1

\* positional arguments given to a decorated function
MaxArgs == 2

-----------------------------------------------------------------------------
(* Text helpers *)

\* Python's `s in text`
In(s, text) == \E i \in DOMAIN text : text[i] = s

-----------------------------------------------------------------------------
(* The simulated device *)

Profiles == {"mellanox", "sixwind"}

HostName(p) == IF p = "mellanox" THEN "switch" ELSE "vsr"

\* the prompt the device prints in state d; an F5 device is in tmsh when its
\* depth is above 0 and in bash otherwise
Prompt(p, d) ==
    CASE p = "mellanox" ->
             IF d.depth > 0 THEN <<"switch", "(config", "#">>
             ELSE IF d.priv THEN <<"switch", "#">>
             ELSE <<"switch", ">">>
      [] p = "f5" ->
             IF d.depth > 0 THEN <<"root@(bigip)(tmos)", "#">>
             ELSE <<"[root@bigip]", "#">>
      [] p = "oneaccess" ->
             IF d.depth > 0 THEN <<"oneos", "(config", "#">>
             ELSE IF d.priv THEN <<"oneos", "#">>
             ELSE <<"oneos", ">">>
      [] OTHER ->
             IF d.depth > 0 THEN <<"vsr", "#">> ELSE <<"vsr", ">">>

\* the state an obedient device is in after command cmd
Obey(p, d, cmd) ==
    CASE cmd = "enable"       -> [d EXCEPT !.priv = TRUE]
      [] cmd = "exit"         -> IF d.depth > 0
                                 THEN [d EXCEPT !.depth = d.depth - 1]
                                 ELSE [d EXCEPT !.priv = FALSE]
      [] cmd = "edit running" -> IF d.depth = 0 THEN [d EXCEPT !.depth = 1] ELSE d
      [] cmd = "config term"  -> IF d.priv /\ d.depth = 0
                                 THEN [d EXCEPT !.depth = 1]
                                 ELSE d
      [] cmd = "tmsh"         -> IF d.depth = 0 THEN [d EXCEPT !.depth = 1] ELSE d
      [] OTHER                -> d

\* `error_marker = "Failed to generate committed config"`
ErrorMarker == "Failed to generate committed config"

\* what the device prints between the echo of cmd and the next prompt; the
\* answer to "show version" may name the host
Answers(p, cmd) ==
    CASE cmd = "commit" ->
             {<<"Configuration committed.">>, <<"Failed to generate committed config">>}
      [] cmd = "show version" ->
             {<<"uptime is", "3 days">>, <<HostName(p), "uptime is", "3 days">>}
      [] OTHER -> {<<>>}

\* every reaction of the device to cmd: its next state and what it sends.
\* An honest device obeys and answers; any other may also ignore the command
\* or stay silent.
React(p, d, cmd) ==
    LET nexts == IF d.honest THEN {Obey(p, d, cmd)} ELSE {Obey(p, d, cmd), d}
    IN  { [dev |-> n, reply |-> <<cmd>> \o a \o Prompt(p, n)] :
              n \in nexts, a \in Answers(p, cmd) }
        \cup (IF d.honest THEN {} ELSE { [dev |-> n, reply |-> <<>>] : n \in nexts })

-----------------------------------------------------------------------------
(* The session: channel, call frames, results *)

Ev(e, a, b) == [ev |-> e, arg |-> a, ans |-> b]

NoResult == [status |-> "none", kind |-> "", msg |-> "", value |-> <<>>, flag |-> FALSE]

cmdVerifyVars == <<global_cmd_verify, received>>

\* the state only the functions of utilities.py touch
utilVars == <<applied>>

\* the state only session_preparation and tmsh_mode touch
prepVars == <<ansi_escape_codes, todo>>

\* a caller starts method op at label on an idle session
Enter(op, label) ==
    /\ pc = "idle"
    /\ pc' = label
    /\ call' = [op |-> op, k |-> dev.depth, snap |-> <<base_prompt, chan, dev>>]
    /\ log' = <<>>
    /\ output' = <<>>
    /\ drifts' = 0
    /\ result' = NoResult
    /\ stack' = <<>>
    /\ UNCHANGED <<profile, dev, chan, base_prompt, check_count, raised>>
    /\ UNCHANGED <<cmdVerifyVars, utilVars>>

\* the same, the method being one whose body is written out step by step
Begin(op, label) ==
    /\ Enter(op, label)
    /\ UNCHANGED prepVars

\* a method calls another: `output (+)= self.callee()`
Invoke(label, ret) ==
    /\ stack' = <<[pc |-> ret, output |-> output]>> \o stack
    /\ output' = <<>>
    /\ pc' = label

\* `return out`: to the caller's frame, or to the session's caller
Return(out) ==
    IF stack = <<>>
    THEN /\ pc' = "idle"
         /\ result' = [NoResult EXCEPT !.status = "ok", !.value = out]
         /\ output' = out
         /\ UNCHANGED stack
    ELSE /\ pc' = Head(stack).pc
         /\ output' = Head(stack).output \o out
         /\ stack' = Tail(stack)
         /\ UNCHANGED result

\* `return b` of a method that answers a question
ReturnBool(b) ==
    /\ pc' = "idle"
    /\ result' = [NoResult EXCEPT !.status = "ok", !.flag = b]
    /\ UNCHANGED <<stack, output>>

\* `raise kind(msg)`: no frame catches, the session's caller gets the error
Raise(site, kind, msg, text) ==
    /\ pc' = "idle"
    /\ stack' = <<>>
    /\ result' = [NoResult EXCEPT !.status = "error", !.kind = kind, !.msg = msg,
                                  !.value = text]
    /\ raised' = raised \cup {<<site, kind>>}
    /\ UNCHANGED output

\* write_channel(normalize_cmd(cmd)): the device reacts to the command; the
\* log keeps whether its answer bears the error marker
WriteChannel(cmd) ==
    \E r \in React(profile, dev, cmd) :
        /\ dev' = r.dev
        /\ chan' = chan \o r.reply
        /\ log' = Append(log, Ev("write", cmd, In(ErrorMarker, r.reply)))

\* read_until_pattern: everything read so far once one of the patterns shows;
\* ReadTimeout, carrying what was read, when none does
ReadUntil(patterns, next) ==
    IF \E s \in patterns : In(s, chan)
    THEN /\ output' = output \o chan
         /\ chan' = <<>>
         /\ log' = Append(log, Ev("read", "", TRUE))
         /\ pc' = next
         /\ UNCHANGED <<stack, result, raised>>
    ELSE /\ log' = Append(log, Ev("read", "", FALSE))
         /\ Raise("read", "ReadTimeout", "Pattern not detected", chan)
         /\ chan' = <<>>

\* check_enable_mode of the base class: is the check string in the prompt
CheckEnableMode == In("#", Prompt(profile, dev))

\* check_config_mode of the base class: is check_string in the prompt
BaseCheckConfigMode(check_string) == In(check_string, Prompt(profile, dev))

\* MellanoxMlnxosSSH.check_config_mode
MlxCheckConfigMode == BaseCheckConfigMode("(config")

\* SixwindOSBase.check_config_mode
SixwindCheckConfigMode == BaseCheckConfigMode("#")

CheckConfigMode == IF profile = "mellanox" THEN MlxCheckConfigMode ELSE SixwindCheckConfigMode

\* another operator changes the device while a call runs
Drift ==
    /\ pc # "idle"
    /\ ~dev.honest
    /\ drifts < MaxDrift
    /\ drifts' = drifts + 1
    /\ \/ dev' = IF dev.depth = 0
                 THEN [dev EXCEPT !.depth = 1, !.priv = TRUE]
                 ELSE [dev EXCEPT !.depth = 0]
       \/ dev' = IF dev.priv
                 THEN [dev EXCEPT !.priv = FALSE, !.depth = 0]
                 ELSE [dev EXCEPT !.priv = TRUE]
    /\ UNCHANGED <<profile, chan, base_prompt, pc, stack, output, check_count, call,
                   log, result, raised>>
    /\ UNCHANGED <<cmdVerifyVars, utilVars, prepVars>>

-----------------------------------------------------------------------------
(* MellanoxMlnxosSSH.enable *)

CallMlxEnable == profile = "mellanox" /\ Begin("enable", "en_check")

\* Mutant: the command is written whatever the first check says
MlxEnableAlwaysWrite ==
    /\ pc = "en_check"
    /\ log' = Append(log, Ev("check", "enable", CheckEnableMode))
    /\ pc' = "en_write"
    /\ UNCHANGED <<profile, dev, chan, base_prompt, stack, output, check_count, call,
                   result, raised, drifts>>
    /\ UNCHANGED <<cmdVerifyVars, utilVars, prepVars>>

\* `if not self.check_enable_mode():` ... `return output`
MlxEnableCheck ==
    /\ pc = "en_check"
    /\ LET ans == CheckEnableMode
       IN  /\ log' = Append(log, Ev("check", "enable", ans))
           /\ IF ans
              THEN Return(output)
              ELSE pc' = "en_write" /\ UNCHANGED <<stack, output, result>>
    /\ UNCHANGED <<profile, dev, chan, base_prompt, check_count, call, raised, drifts>>
    /\ UNCHANGED <<cmdVerifyVars, utilVars, prepVars>>

\* `self.write_channel(self.normalize_cmd(cmd))`
MlxEnableWrite ==
    /\ pc = "en_write"
    /\ WriteChannel("enable")
    /\ pc' = "en_read"
    /\ UNCHANGED <<profile, base_prompt, stack, output, check_count, call, result,
                   raised, drifts>>
    /\ UNCHANGED <<cmdVerifyVars, utilVars, prepVars>>

\* `output += self.read_until_prompt_or_pattern(pattern=pattern, ...)`
MlxEnableRead ==
    /\ pc = "en_read"
    /\ ReadUntil({"#", base_prompt}, "en_recheck")
    /\ UNCHANGED <<profile, dev, base_prompt, check_count, call, drifts>>
    /\ UNCHANGED <<cmdVerifyVars, utilVars, prepVars>>

\* Mutant: the mode is not validated again after the exchange
MlxEnableNoRecheck ==
    /\ pc = "en_recheck"
    /\ Return(output)
    /\ UNCHANGED <<profile, dev, chan, base_prompt, check_count, call, log, raised,
                   drifts>>
    /\ UNCHANGED <<cmdVerifyVars, utilVars, prepVars>>

\* Mutant: a failed validation sends the command again (up to 8 channel events)
MlxEnableRecheckRetry ==
    /\ pc = "en_recheck"
    /\ LET ans == CheckEnableMode
       IN  /\ log' = Append(log, Ev("check", "enable", ans))
           /\ IF ans
              THEN Return(output) /\ UNCHANGED raised
              ELSE IF Len(log) < 8
                   THEN pc' = "en_write" /\ UNCHANGED <<stack, output, result, raised>>
                   ELSE Raise("enable", "ValueError", "Failed to enter enable mode.", <<>>)
    /\ UNCHANGED <<profile, dev, chan, base_prompt, check_count, call, drifts>>
    /\ UNCHANGED <<cmdVerifyVars, utilVars, prepVars>>

\* `if not self.check_enable_mode(): raise ValueError(...)`, `return output`
MlxEnableRecheck ==
    /\ pc = "en_recheck"
    /\ LET ans == CheckEnableMode
       IN  /\ log' = Append(log, Ev("check", "enable", ans))
           /\ IF ans
              THEN Return(output) /\ UNCHANGED raised
              ELSE Raise("enable", "ValueError", "Failed to enter enable mode.", <<>>)
    /\ UNCHANGED <<profile, dev, chan, base_prompt, check_count, call, drifts>>
    /\ UNCHANGED <<cmdVerifyVars, utilVars, prepVars>>

-----------------------------------------------------------------------------
(* MellanoxMlnxosSSH.exit_config_mode *)

\* `check_count = 12`
CheckCount == 12

CallMlxExitConfigMode == profile = "mellanox" /\ Begin("exit_config_mode", "ex_start")

\* Mutant: the loop starts two short of the ceiling
MlxExitStartShort ==
    /\ pc = "ex_start"
    /\ output' = <<>>
    /\ check_count' = CheckCount - 2
    /\ pc' = "ex_loop"
    /\ UNCHANGED <<profile, dev, chan, base_prompt, stack, call, log, result, raised,
                   drifts>>
    /\ UNCHANGED <<cmdVerifyVars, utilVars, prepVars>>

\* `output = ""`, `check_count = 12`
MlxExitStart ==
    /\ pc = "ex_start"
    /\ output' = <<>>
    /\ check_count' = CheckCount
    /\ pc' = "ex_loop"
    /\ UNCHANGED <<profile, dev, chan, base_prompt, stack, call, log, result, raised,
                   drifts>>
    /\ UNCHANGED <<cmdVerifyVars, utilVars, prepVars>>

\* Mutant: the exit command is written whatever the check answers
MlxExitLoopAlwaysWrite ==
    /\ pc = "ex_loop"
    /\ IF check_count >= 0
       THEN /\ log' = Append(log, Ev("check", "config", MlxCheckConfigMode))
            /\ pc' = "ex_write"
       ELSE /\ pc' = "ex_final"
            /\ UNCHANGED log
    /\ UNCHANGED <<profile, dev, chan, base_prompt, stack, output, check_count, call,
                   result, raised, drifts>>
    /\ UNCHANGED <<cmdVerifyVars, utilVars, prepVars>>

\* `while check_count >= 0:` `if self.check_config_mode():` ... `else: break`
MlxExitLoop ==
    /\ pc = "ex_loop"
    /\ IF check_count >= 0
       THEN LET ans == MlxCheckConfigMode
            IN  /\ log' = Append(log, Ev("check", "config", ans))
                /\ pc' = IF ans THEN "ex_write" ELSE "ex_final"
       ELSE /\ pc' = "ex_final"
            /\ UNCHANGED log
    /\ UNCHANGED <<profile, dev, chan, base_prompt, stack, output, check_count, call,
                   result, raised, drifts>>
    /\ UNCHANGED <<cmdVerifyVars, utilVars, prepVars>>

\* `self.write_channel(self.normalize_cmd(exit_config))`
MlxExitWrite ==
    /\ pc = "ex_write"
    /\ WriteChannel("exit")
    /\ pc' = "ex_read"
    /\ UNCHANGED <<profile, base_prompt, stack, output, check_count, call, result,
                   raised, drifts>>
    /\ UNCHANGED <<cmdVerifyVars, utilVars, prepVars>>

\* Mutant: `check_count -= 1` is missing (followed for 60 channel events)
MlxExitReadNoDecrement ==
    /\ pc = "ex_read"
    /\ Len(log) < 60
    /\ ReadUntil({"#"}, "ex_loop")
    /\ UNCHANGED check_count
    /\ UNCHANGED <<profile, dev, base_prompt, call, drifts>>
    /\ UNCHANGED <<cmdVerifyVars, utilVars, prepVars>>

\* Mutant: a read that times out is taken for an empty read and the loop is
\* left for the last check
MlxExitReadSwallow ==
    /\ pc = "ex_read"
    /\ IF In("#", chan)
       THEN /\ output' = output \o chan
            /\ log' = Append(log, Ev("read", "", TRUE))
            /\ pc' = "ex_loop"
            /\ check_count' = check_count - 1
       ELSE /\ log' = Append(log, Ev("read", "", FALSE))
            /\ pc' = "ex_final"
            /\ UNCHANGED <<output, check_count>>
    /\ chan' = <<>>
    /\ UNCHANGED <<profile, dev, base_prompt, stack, call, result, raised, drifts>>
    /\ UNCHANGED <<cmdVerifyVars, utilVars, prepVars>>

\* `output += self.read_until_pattern(pattern=pattern)`, `check_count -= 1`
MlxExitRead ==
    /\ pc = "ex_read"
    /\ ReadUntil({"#"}, "ex_loop")
    /\ check_count' = IF pc' = "ex_loop" THEN check_count - 1 ELSE check_count
    /\ UNCHANGED <<profile, dev, base_prompt, call, drifts>>
    /\ UNCHANGED <<cmdVerifyVars, utilVars, prepVars>>

\* `if self.check_config_mode(): raise ValueError(...)`, `return output`
MlxExitFinal ==
    /\ pc = "ex_final"
    /\ LET ans == MlxCheckConfigMode
       IN  /\ log' = Append(log, Ev("check", "config", ans))
           /\ IF ans
              THEN Raise("exit_config_mode", "ValueError",
                         "Failed to exit configuration mode", <<>>)
              ELSE Return(output) /\ UNCHANGED raised
    /\ UNCHANGED <<profile, dev, chan, base_prompt, check_count, call, drifts>>
    /\ UNCHANGED <<cmdVerifyVars, utilVars, prepVars>>

-----------------------------------------------------------------------------
(* config_mode and exit_config_mode of the base class, with the command and *)
(* the patterns each driver's override passes to them                       *)

\* MellanoxMlnxosSSH.config_mode, SixwindOSBase.config_mode: config_command
ConfigCommand == IF profile = "mellanox" THEN "config term" ELSE "edit running"

\* their pattern; an empty pattern reads until the prompt
ConfigPattern == IF profile = "mellanox" THEN {"#"} ELSE {base_prompt}

CallConfigMode == Begin("config_mode", "cfg_check")

BaseConfigCheck ==
    /\ pc = "cfg_check"
    /\ LET ans == CheckConfigMode
       IN  /\ log' = Append(log, Ev("check", "config", ans))
           /\ IF ans
              THEN Return(output)
              ELSE pc' = "cfg_write" /\ UNCHANGED <<stack, output, result>>
    /\ UNCHANGED <<profile, dev, chan, base_prompt, check_count, call, raised, drifts>>
    /\ UNCHANGED <<cmdVerifyVars, utilVars, prepVars>>

BaseConfigWrite ==
    /\ pc = "cfg_write"
    /\ WriteChannel(ConfigCommand)
    /\ pc' = "cfg_read"
    /\ UNCHANGED <<profile, base_prompt, stack, output, check_count, call, result,
                   raised, drifts>>
    /\ UNCHANGED <<cmdVerifyVars, utilVars, prepVars>>

BaseConfigRead ==
    /\ pc = "cfg_read"
    /\ ReadUntil(ConfigPattern, "cfg_recheck")
    /\ UNCHANGED <<profile, dev, base_prompt, check_count, call, drifts>>
    /\ UNCHANGED <<cmdVerifyVars, utilVars, prepVars>>

BaseConfigRecheck ==
    /\ pc = "cfg_recheck"
    /\ LET ans == CheckConfigMode
       IN  /\ log' = Append(log, Ev("check", "config", ans))
           /\ IF ans
              THEN Return(output) /\ UNCHANGED raised
              ELSE Raise("config_mode", "ModeTransitionError",
                         "Failed to enter configuration mode.", <<>>)
    /\ UNCHANGED <<profile, dev, chan, base_prompt, check_count, call, drifts>>
    /\ UNCHANGED <<cmdVerifyVars, utilVars, prepVars>>

\* SixwindOSBase.exit_config_mode: exit_config "exit", pattern ">"
CallSixwindExitConfigMode == profile = "sixwind" /\ Begin("exit_config_mode", "xb_check")

BaseExitCheck ==
    /\ pc = "xb_check"
    /\ LET ans == CheckConfigMode
       IN  /\ log' = Append(log, Ev("check", "config", ans))
           /\ IF ans
              THEN pc' = "xb_write" /\ UNCHANGED <<stack, output, result>>
              ELSE Return(output)
    /\ UNCHANGED <<profile, dev, chan, base_prompt, check_count, call, raised, drifts>>
    /\ UNCHANGED <<cmdVerifyVars, utilVars, prepVars>>

BaseExitWrite ==
    /\ pc = "xb_write"
    /\ WriteChannel("exit")
    /\ pc' = "xb_read"
    /\ UNCHANGED <<profile, base_prompt, stack, output, check_count, call, result,
                   raised, drifts>>
    /\ UNCHANGED <<cmdVerifyVars, utilVars, prepVars>>

BaseExitRead ==
    /\ pc = "xb_read"
    /\ ReadUntil({">"}, "xb_recheck")
    /\ UNCHANGED <<profile, dev, base_prompt, check_count, call, drifts>>
    /\ UNCHANGED <<cmdVerifyVars, utilVars, prepVars>>

BaseExitRecheck ==
    /\ pc = "xb_recheck"
    /\ LET ans == CheckConfigMode
       IN  /\ log' = Append(log, Ev("check", "config", ans))
           /\ IF ans
              THEN Raise("base_exit_config_mode", "ModeTransitionError",
                         "Failed to exit configuration mode", <<>>)
              ELSE Return(output) /\ UNCHANGED raised
    /\ UNCHANGED <<profile, dev, chan, base_prompt, check_count, call, drifts>>
    /\ UNCHANGED <<cmdVerifyVars, utilVars, prepVars>>

-----------------------------------------------------------------------------
(* MellanoxMlnxosSSH.save_config *)

SaveCommand == "configuration write"

CallMlxSaveConfig == profile = "mellanox" /\ Begin("save_config", "sc_enable")

\* Mutant: save_config goes to config_mode without enable()
MlxSaveNoEnable ==
    /\ pc = "sc_enable"
    /\ Invoke("cfg_check", "sc_send")
    /\ UNCHANGED <<profile, dev, chan, base_prompt, check_count, call, log, result,
                   raised, drifts>>
    /\ UNCHANGED <<cmdVerifyVars, utilVars, prepVars>>

\* `output = self.enable()`
MlxSaveEnable ==
    /\ pc = "sc_enable"
    /\ Invoke("en_check", "sc_config")
    /\ UNCHANGED <<profile, dev, chan, base_prompt, check_count, call, log, result,
                   raised, drifts>>
    /\ UNCHANGED <<cmdVerifyVars, utilVars, prepVars>>

\* `output += self.config_mode()`
MlxSaveConfigMode ==
    /\ pc = "sc_config"
    /\ Invoke("cfg_check", "sc_send")
    /\ UNCHANGED <<profile, dev, chan, base_prompt, check_count, call, log, result,
                   raised, drifts>>
    /\ UNCHANGED <<cmdVerifyVars, utilVars, prepVars>>

\* `self.send_command(cmd)`: the write
MlxSaveSend ==
    /\ pc = "sc_send"
    /\ WriteChannel(SaveCommand)
    /\ pc' = "sc_read"
    /\ UNCHANGED <<profile, base_prompt, stack, output, check_count, call, result,
                   raised, drifts>>
    /\ UNCHANGED <<cmdVerifyVars, utilVars, prepVars>>

\* the response without the echo of the command in front
StripCommand(cmd, text) ==
    IF text # <<>> /\ Head(text) = cmd THEN Tail(text) ELSE text

\* the response without the prompt that ends it
StripPrompt(text) ==
    IF In(base_prompt, text)
    THEN SubSeq(text, 1,
                (CHOOSE i \in DOMAIN text :
                     /\ text[i] = base_prompt
                     /\ \A j \in (i + 1)..Len(text) : text[j] # base_prompt) - 1)
    ELSE text

\* `output += self.send_command(cmd)`: the read until the prompt, the echo and
\* the prompt taken off; ReadTimeout when the prompt does not come
MlxSaveRead ==
    /\ pc = "sc_read"
    /\ IF In(base_prompt, chan)
       THEN /\ output' = output \o StripPrompt(StripCommand(SaveCommand, chan))
            /\ chan' = <<>>
            /\ log' = Append(log, Ev("read", "", TRUE))
            /\ pc' = "sc_exit"
            /\ UNCHANGED <<stack, result, raised>>
       ELSE /\ log' = Append(log, Ev("read", "", FALSE))
            /\ Raise("read", "ReadTimeout", "Pattern not detected", chan)
            /\ chan' = <<>>
    /\ UNCHANGED <<profile, dev, base_prompt, check_count, call, drifts>>
    /\ UNCHANGED <<cmdVerifyVars, utilVars, prepVars>>

\* `output += self.exit_config_mode()`
MlxSaveExit ==
    /\ pc = "sc_exit"
    /\ Invoke("ex_start", "sc_return")
    /\ UNCHANGED <<profile, dev, chan, base_prompt, check_count, call, log, result,
                   raised, drifts>>
    /\ UNCHANGED <<cmdVerifyVars, utilVars, prepVars>>

\* `return output`
MlxSaveReturn ==
    /\ pc = "sc_return"
    /\ Return(output)
    /\ UNCHANGED <<profile, dev, chan, base_prompt, check_count, call, log, raised,
                   drifts>>
    /\ UNCHANGED <<cmdVerifyVars, utilVars, prepVars>>

-----------------------------------------------------------------------------
(* SixwindOSBase: check_enable_mode, enable, exit_enable_mode *)

CallSixwindCheckEnableMode == profile = "sixwind" /\ Begin("check_enable_mode", "sw_check_enable")

CallSixwindEnable == profile = "sixwind" /\ Begin("enable", "sw_enable")

CallSixwindExitEnableMode == profile = "sixwind" /\ Begin("exit_enable_mode", "sw_exit_enable")

\* `return True`
SixwindCheckEnableMode ==
    /\ pc = "sw_check_enable"
    /\ ReturnBool(TRUE)
    /\ UNCHANGED <<profile, dev, chan, base_prompt, check_count, call, log, raised,
                   drifts>>
    /\ UNCHANGED <<cmdVerifyVars, utilVars, prepVars>>

\* Mutant: the enable command of a device with an enable tier is sent
SixwindEnableInherited ==
    /\ pc = "sw_enable"
    /\ WriteChannel("enable")
    /\ Return(<<>>)
    /\ UNCHANGED <<profile, base_prompt, check_count, call, raised, drifts>>
    /\ UNCHANGED <<cmdVerifyVars, utilVars, prepVars>>

\* `return ""`
SixwindEnable ==
    /\ pc = "sw_enable"
    /\ Return(<<>>)
    /\ UNCHANGED <<profile, dev, chan, base_prompt, check_count, call, log, raised,
                   drifts>>
    /\ UNCHANGED <<cmdVerifyVars, utilVars, prepVars>>

\* `return ""`
SixwindExitEnableMode ==
    /\ pc = "sw_exit_enable"
    /\ Return(<<>>)
    /\ UNCHANGED <<profile, dev, chan, base_prompt, check_count, call, log, raised,
                   drifts>>
    /\ UNCHANGED <<cmdVerifyVars, utilVars, prepVars>>

-----------------------------------------------------------------------------
(* SixwindOSBase.commit *)

CallSixwindCommit == profile = "sixwind" /\ Begin("commit", "cm_start")

\* `output = self.config_mode()`
SixwindCommitConfig ==
    /\ pc = "cm_start"
    /\ Invoke("cfg_check", "cm_send")
    /\ UNCHANGED <<profile, dev, chan, base_prompt, check_count, call, log, result,
                   raised, drifts>>
    /\ UNCHANGED <<cmdVerifyVars, utilVars, prepVars>>

\* `self.send_command(command_string, ..., expect_string=r"#")`: the write
SixwindCommitSend ==
    /\ pc = "cm_send"
    /\ WriteChannel("commit")
    /\ pc' = "cm_read"
    /\ UNCHANGED <<profile, base_prompt, stack, output, check_count, call, result,
                   raised, drifts>>
    /\ UNCHANGED <<cmdVerifyVars, utilVars, prepVars>>

\* `output += self.send_command(...)`: the read until expect_string, nothing
\* stripped (strip_prompt=False, strip_command=False)
SixwindCommitRead ==
    /\ pc = "cm_read"
    /\ ReadUntil({"#"}, "cm_exit")
    /\ UNCHANGED <<profile, dev, base_prompt, check_count, call, drifts>>
    /\ UNCHANGED <<cmdVerifyVars, utilVars, prepVars>>

\* Mutant: the marker is tested without exit_config_mode being called first
SixwindCommitNoExit ==
    /\ pc = "cm_exit"
    /\ pc' = "cm_test"
    /\ UNCHANGED <<profile, dev, chan, base_prompt, stack, output, check_count, call,
                   log, result, raised, drifts>>
    /\ UNCHANGED <<cmdVerifyVars, utilVars, prepVars>>

\* `output += self.exit_config_mode()`
SixwindCommitExit ==
    /\ pc = "cm_exit"
    /\ Invoke("xb_check", "cm_test")
    /\ UNCHANGED <<profile, dev, chan, base_prompt, check_count, call, log, result,
                   raised, drifts>>
    /\ UNCHANGED <<cmdVerifyVars, utilVars, prepVars>>

\* Mutant: the output is returned whatever it holds
SixwindCommitNoTest ==
    /\ pc = "cm_test"
    /\ Return(output)
    /\ UNCHANGED <<profile, dev, chan, base_prompt, check_count, call, log, raised,
                   drifts>>
    /\ UNCHANGED <<cmdVerifyVars, utilVars, prepVars>>

\* `if error_marker in output: raise ValueError(...)`, `return output`
SixwindCommitTest ==
    /\ pc = "cm_test"
    /\ IF In(ErrorMarker, output)
       THEN Raise("commit", "ValueError", "Commit failed with following errors:", output)
       ELSE Return(output) /\ UNCHANGED raised
    /\ UNCHANGED <<profile, dev, chan, base_prompt, check_count, call, log, drifts>>
    /\ UNCHANGED <<cmdVerifyVars, utilVars, prepVars>>

-----------------------------------------------------------------------------
(* clear_buffer of the base class, as test_clear_buffer drives it *)

\* most unread device output a caller lets pile up before it writes again
MaxChan == 4

\* what is known of the clear_buffer calls so far: one has ended (cleared);
\* the device has sent nothing since it ended (quiet); the call that ended
\* last was made in such quiet after an earlier one (second); what the last
\* call and the one before it answered (last, before)
Clears == IF applied.fn = "clear_buffer" THEN applied ELSE
    [fn |-> "clear_buffer", cleared |-> FALSE, quiet |-> FALSE, second |-> FALSE,
     last |-> FALSE, before |-> FALSE]

\* commands["basic"] of the test
BasicCommand == "show ip"

\* `net_connect.write_channel(commands["basic"] + "\n")`: a command written by
\* the caller and left unread; the device answers, unless it stays silent
TestWriteChannel ==
    /\ pc = "idle"
    /\ Len(chan) < MaxChan
    /\ \E r \in React(profile, dev, BasicCommand) :
           /\ dev' = r.dev
           /\ chan' = chan \o r.reply
           /\ applied' = [Clears EXCEPT !.quiet = @ /\ r.reply = <<>>]
    /\ UNCHANGED <<profile, base_prompt, pc, stack, output, check_count, call, log,
                   result, raised, drifts>>
    /\ UNCHANGED <<cmdVerifyVars, prepVars>>

CallClearBuffer ==
    /\ Begin("clear_buffer", "cb_drain")

\* Mutant: one piece of what is there is drained, the rest stays
ClearBufferOnePiece ==
    /\ pc = "cb_drain"
    /\ chan' = IF chan = <<>> THEN chan ELSE Tail(chan)
    /\ ReturnBool(chan # <<>>)
    /\ applied' = [Clears EXCEPT !.cleared = TRUE, !.quiet = TRUE,
                                 !.second = Clears.cleared /\ Clears.quiet,
                                 !.last = chan # <<>>, !.before = Clears.last]
    /\ UNCHANGED <<profile, dev, base_prompt, check_count, call, log, raised, drifts>>
    /\ UNCHANGED <<cmdVerifyVars, prepVars>>

\* clear_buffer: everything there is drained and dropped; the answer is
\* whether anything was there
ClearBuffer ==
    /\ pc = "cb_drain"
    /\ chan' = <<>>
    /\ ReturnBool(chan # <<>>)
    /\ applied' = [Clears EXCEPT !.cleared = TRUE, !.quiet = TRUE,
                                 !.second = Clears.cleared /\ Clears.quiet,
                                 !.last = chan # <<>>, !.before = Clears.last]
    /\ UNCHANGED <<profile, dev, base_prompt, check_count, call, log, raised, drifts>>
    /\ UNCHANGED <<cmdVerifyVars, prepVars>>

-----------------------------------------------------------------------------
(* select_cmd_verify *)

Tri == {"None", "True", "False"}

\* the keyword arguments a caller may give
KwargNames == {"cmd_verify", "strip_prompt"}

Kwargs == UNION { [names -> {"True", "False"}] : names \in SUBSET KwargNames }

\* the positional arguments a caller may give
ArgValues == {"show ip", "show version"}

Args == UNION { [1..n -> ArgValues] : n \in 0..MaxArgs }

\* Mutant: the wrapped function is handed the cmd_verify keyword alone
SelectCmdVerifyAlone(gcv, kwargs) ==
    IF gcv # "None"
    THEN [n \in {"cmd_verify"} |-> gcv]
    ELSE kwargs

\* Mutant: the caller's cmd_verify wins over the global flag
SelectCmdVerifyCallerWins(gcv, kwargs) ==
    IF gcv # "None" /\ "cmd_verify" \notin DOMAIN kwargs
    THEN [n \in DOMAIN kwargs \cup {"cmd_verify"} |->
              IF n = "cmd_verify" THEN gcv ELSE kwargs[n]]
    ELSE kwargs

\* Mutant: the global flag is written into kwargs also when it is None
SelectCmdVerifyAlways(gcv, kwargs) ==
    [n \in DOMAIN kwargs \cup {"cmd_verify"} |->
         IF n = "cmd_verify" THEN gcv ELSE kwargs[n]]

\* wrapper_decorator: the keyword arguments the wrapped function is called with
SelectCmdVerify(gcv, kwargs) ==
    IF gcv # "None"
    THEN [n \in DOMAIN kwargs \cup {"cmd_verify"} |->
              IF n = "cmd_verify" THEN gcv ELSE kwargs[n]]
    ELSE kwargs

\* bogus_func: `return (obj, args, kwargs)`
BogusFunc(obj, args, kwargs) == <<obj, args, kwargs>>

\* a call of the decorated bogus_func; `given` is what the caller passed
CallBogusFunc ==
    /\ pc = "idle"
    /\ \E args \in Args, kwargs \in Kwargs :
           received' = [called |-> TRUE,
                        given |-> [obj |-> global_cmd_verify, args |-> args,
                                   kwargs |-> kwargs],
                        ret |-> BogusFunc(global_cmd_verify, args,
                                          SelectCmdVerify(global_cmd_verify, kwargs))]
    /\ UNCHANGED <<profile, dev, chan, base_prompt, global_cmd_verify, pc, stack,
                   output, check_count, call, log, result, raised, drifts, applied,
                   ansi_escape_codes, todo>>

\* `obj.global_cmd_verify = ...`
SetGlobalCmdVerify ==
    /\ pc = "idle"
    /\ \E v \in Tri : v # global_cmd_verify /\ global_cmd_verify' = v
    /\ UNCHANGED <<profile, dev, chan, base_prompt, pc, stack, output, check_count,
                   call, log, result, raised, drifts, received, applied,
                   ansi_escape_codes, todo>>

-----------------------------------------------------------------------------
(* utilities.py: the structured-data hooks *)

\* a Python value is [type, data]: a str, a list or a dict, with its content
\* as a sequence
Str(t) == [type |-> "str", data |-> t]

\* how a function ended
Returned(v) == [status |-> "returned", kind |-> "", value |-> v]
Raised(kind) == [status |-> "raised", kind |-> kind, value |-> Str(<<>>)]
NoOutcome == [status |-> "none", kind |-> "", value |-> Str(<<>>)]

\* the directories get_template_dir looks at, as path components
EnvDir == <<"net_textfsm">>
PackageDir == <<"site-packages", "ntc_templates", "templates">>
HomeDir == <<"~", "ntc-templates", "templates">>
TemplateDirs == {EnvDir, Append(EnvDir, "templates"), PackageDir, HomeDir}

\* the process environment: NET_TEXTFSM set or not, ntc_templates importable
\* or not, and the directories that hold an index file
Environments ==
    [net_textfsm : BOOLEAN, package : BOOLEAN, index : SUBSET TemplateDirs]

\* get_template_dir: the directory returned, or <<>> for `raise ValueError(msg)`
GetTemplateDir(env, skip_ntc_package) ==
    LET template_dir ==
            IF env.net_textfsm
            THEN IF EnvDir \notin env.index
                 THEN Append(EnvDir, "templates")
                 ELSE EnvDir
            ELSE IF env.package /\ ~skip_ntc_package
                 THEN PackageDir
                 ELSE HomeDir
    IN  IF template_dir \notin env.index THEN <<>> ELSE template_dir

\* the calls of get_template_dir: the flag and the process environment
TemplateDirCalls ==
    [fn : {"pending"}, skip_ntc_package : BOOLEAN, env : Environments,
     outcome : {NoOutcome}]

\* get_template_dir called: it returns the directory as a str or raises
\* ValueError; os.path.abspath names the same directory
CallGetTemplateDir ==
    /\ applied.fn = "pending"
    /\ LET template_dir == GetTemplateDir(applied.env, applied.skip_ntc_package)
       IN  applied' = [applied EXCEPT
               !.fn = "get_template_dir",
               !.outcome = IF template_dir = <<>>
                           THEN Raised("ValueError")
                           ELSE Returned(Str(template_dir))]
    /\ UNCHANGED <<profile, dev, chan, base_prompt, pc, stack, output, check_count,
                   call, log, result, raised, drifts, received, global_cmd_verify,
                   ansi_escape_codes, todo>>

\* what a parsing backend does with the text it is given: a non-empty list, a
\* non-empty dict, an empty result, or an exception of the kind named
ParserOutcomes ==
    {"list", "dict", "empty", "FileNotFoundError", "CliTableError", "TextFSMError"}

\* the non-empty list or dict a backend hands back
Parsed(parsed) ==
    IF parsed = "list"
    THEN [type |-> "list", data |-> <<"row">>]
    ELSE [type |-> "dict", data |-> <<"key">>]

\* _textfsm_parse: ParseCmd either raises or fills the table, and
\* clitable_to_dict makes a list of its rows
TextfsmParse(parsed, raw_output) ==
    CASE parsed \in {"FileNotFoundError", "CliTableError"} -> Returned(Str(raw_output))
      [] parsed = "empty" -> Returned(Str(raw_output))
      [] parsed = "list"  -> Returned(Parsed(parsed))
      [] OTHER            -> Raised(parsed)

\* get_structured_data
GetStructuredData(raw_output, platform, command, template, env, parsed) ==
    LET attrs == IF platform = "None" \/ command = "None"
                 THEN <<>>
                 ELSE <<command, platform>>
    IN  IF template = "None"
        THEN IF attrs = <<>>
             THEN Raised("ValueError")
             ELSE IF GetTemplateDir(env, FALSE) = <<>>
                  THEN Raised("ValueError")
                  ELSE TextfsmParse(parsed, raw_output)
        ELSE TextfsmParse(parsed, raw_output)

\* get_structured_data_ttp: `except Exception: pass` takes every exception of
\* the parser and the AssertionError of a result that is not a list
GetStructuredDataTtp(raw_output, template, installed, parsed) ==
    IF ~installed
    THEN Raised("ValueError")
    ELSE IF template # "None" /\ parsed = "list"
         THEN Returned(Parsed(parsed))
         ELSE Returned(Str(raw_output))

GenieDeviceMapper == {"cisco_ios", "cisco_xe", "cisco_xr", "cisco_nxos", "cisco_asa"}

\* platform.split("_")[:-1] joined again when platform has more than one "_"
BasePlatform(platform) ==
    IF Len(platform) > 2 THEN SubSeq(platform, 1, Len(platform) - 1) ELSE platform

PlatformName(platform) ==
    CASE platform = <<"cisco", "ios">>  -> "cisco_ios"
      [] platform = <<"cisco", "xe">>   -> "cisco_xe"
      [] platform = <<"cisco", "xr">>   -> "cisco_xr"
      [] platform = <<"cisco", "nxos">> -> "cisco_nxos"
      [] platform = <<"cisco", "asa">>  -> "cisco_asa"
      [] OTHER                          -> "other"

\* get_structured_data_genie; platform is its "_"-separated parts
GetStructuredDataGenie(raw_output, platform, command, installed, parsed) ==
    IF ~installed
    THEN Raised("ValueError")
    ELSE IF ~In("cisco", platform)
         THEN Returned(Str(raw_output))
         ELSE IF PlatformName(BasePlatform(platform)) \notin GenieDeviceMapper
              THEN Returned(Str(raw_output))
              ELSE IF parsed = "dict"
                   THEN Returned(Parsed(parsed))
                   ELSE Returned(Str(raw_output))

\* the calls of the three hooks: the arguments (a platform as its "_"-separated
\* parts, <<>> for None) and the circumstances
HookCalls ==
    [fn : {"pending"},
     raw_output : {<<>>, <<"Interface", "Gi0/1">>},
     platform : {<<>>, <<"cisco", "ios">>, <<"cisco", "ios", "telnet">>,
                 <<"cisco", "wlc">>, <<"linux">>},
     command : {"None", "show version"},
     template : {"None", "show_version.template"},
     env : Environments, installed : BOOLEAN, parsed : ParserOutcomes,
     outcome : {NoOutcome}]

\* TextFSM's table is always a list of rows
CallGetStructuredData ==
    /\ applied.fn = "pending"
    /\ applied.parsed # "dict"
    /\ applied' = [applied EXCEPT
           !.fn = "get_structured_data",
           !.outcome = GetStructuredData(applied.raw_output,
                                         IF applied.platform = <<>> THEN "None"
                                                                    ELSE "given",
                                         applied.command, applied.template,
                                         applied.env, applied.parsed)]
    /\ UNCHANGED <<profile, dev, chan, base_prompt, pc, stack, output, check_count,
                   call, log, result, raised, drifts>>
    /\ UNCHANGED <<cmdVerifyVars, prepVars>>

CallGetStructuredDataTtp ==
    /\ applied.fn = "pending"
    /\ applied' = [applied EXCEPT
           !.fn = "get_structured_data_ttp",
           !.outcome = GetStructuredDataTtp(applied.raw_output, applied.template,
                                            applied.installed, applied.parsed)]
    /\ UNCHANGED <<profile, dev, chan, base_prompt, pc, stack, output, check_count,
                   call, log, result, raised, drifts>>
    /\ UNCHANGED <<cmdVerifyVars, prepVars>>

\* genie takes a platform and a command (both `str`), and its parsers report
\* output they find nothing in by raising
CallGetStructuredDataGenie ==
    /\ applied.fn = "pending"
    /\ applied.platform # <<>>
    /\ applied.command # "None"
    /\ applied.parsed # "empty"
    /\ applied' = [applied EXCEPT
           !.fn = "get_structured_data_genie",
           !.outcome = GetStructuredDataGenie(applied.raw_output, applied.platform,
                                              applied.command, applied.installed,
                                              applied.parsed)]
    /\ UNCHANGED <<profile, dev, chan, base_prompt, pc, stack, output, check_count,
                   call, log, result, raised, drifts>>
    /\ UNCHANGED <<cmdVerifyVars, prepVars>>

-----------------------------------------------------------------------------
(* utilities.py: strip_ansi_escape_codes *)
(* A string is the sequence of its characters; ESC stands for chr(27).       *)
(* A regular expression is a sequence of alternatives, an alternative a      *)
(* sequence of elements: a set of characters, taken once or (`+`) as often   *)
(* as it occurs.                                                              *)

ESC == "ESC"

Digits == {"0", "1", "2", "3", "4", "5", "6", "7", "8", "9"}

Lit(ch) == [chars |-> {ch}, many |-> FALSE]
Digit == [chars |-> Digits, many |-> FALSE]
DigitPlus == [chars |-> Digits, many |-> TRUE]
OneOf(set) == [chars |-> set, many |-> FALSE]

\* chr(27) + r"\[" ...
Csi(rest) == <<Lit(ESC), Lit("[")>> \o rest

\* code_next_line: chr(27) + r"E"
code_next_line == << <<Lit(ESC), Lit("E")>> >>

\* code_insert_line: chr(27) + r"\[(\d+)L"
code_insert_line == <<Csi(<<DigitPlus, Lit("L")>>)>>

\* the patterns of code_set, in its order
code_set ==
    <<  \* code_position_cursor  \[\d+;\d+H
        <<Csi(<<DigitPlus, Lit(";"), DigitPlus, Lit("H")>>)>>,
        \* code_show_cursor  \[\?25h
        <<Csi(<<Lit("?"), Lit("2"), Lit("5"), Lit("h")>>)>>,
        \* code_erase_line  \[2K
        <<Csi(<<Lit("2"), Lit("K")>>)>>,
        \* code_enable_scroll  \[\d+;\d+r
        <<Csi(<<DigitPlus, Lit(";"), DigitPlus, Lit("r")>>)>>,
        \* code_erase_start_line  \[K
        <<Csi(<<Lit("K")>>)>>,
        \* code_carriage_return  \[1M
        <<Csi(<<Lit("1"), Lit("M")>>)>>,
        \* code_disable_line_wrapping  \[\?7l
        <<Csi(<<Lit("?"), Lit("7"), Lit("l")>>)>>,
        \* code_erase_line_end  \[K
        <<Csi(<<Lit("K")>>)>>,
        \* code_reset_mode_screen_options  \[\?\d+l
        <<Csi(<<Lit("?"), DigitPlus, Lit("l")>>)>>,
        \* code_reset_graphics_mode  \[00m
        <<Csi(<<Lit("0"), Lit("0"), Lit("m")>>)>>,
        \* code_erase_display  \[2J
        <<Csi(<<Lit("2"), Lit("J")>>)>>,
        \* code_graphics_mode  \[\d\d;\d\dm
        <<Csi(<<Digit, Digit, Lit(";"), Digit, Digit, Lit("m")>>)>>,
        \* code_graphics_mode2  \[\d\d;\d\d;\d\dm
        <<Csi(<<Digit, Digit, Lit(";"), Digit, Digit, Lit(";"), Digit, Digit,
                Lit("m")>>)>>,
        \* code_graphics_mode3  \[(3|4)\dm
        <<Csi(<<OneOf({"3", "4"}), Digit, Lit("m")>>)>>,
        \* code_graphics_mode4  \[(9|10)[0-7]m
        <<Csi(<<Lit("9"), OneOf({"0", "1", "2", "3", "4", "5", "6", "7"}),
                Lit("m")>>),
          Csi(<<Lit("1"), Lit("0"),
                OneOf({"0", "1", "2", "3", "4", "5", "6", "7"}), Lit("m")>>)>>,
        \* code_get_cursor_position  \[6n
        <<Csi(<<Lit("6"), Lit("n")>>)>>,
        \* code_cursor_position  \[m
        <<Csi(<<Lit("m")>>)>>,
        \* code_erase_display  \[2J
        <<Csi(<<Lit("2"), Lit("J")>>)>>,
        \* code_erase_display_0  \[J
        <<Csi(<<Lit("J")>>)>>,
        \* code_attrs_off  \[0m
        <<Csi(<<Lit("0"), Lit("m")>>)>>,
        \* code_reverse  \[7m
        <<Csi(<<Lit("7"), Lit("m")>>)>>,
        \* code_cursor_left  \[\d+D
        <<Csi(<<DigitPlus, Lit("D")>>)>> >>

\* the first position from i on whose character is outside set
RECURSIVE RunEnd(_, _, _)
RunEnd(set, s, i) ==
    IF i > Len(s) \/ s[i] \notin set THEN i ELSE RunEnd(set, s, i + 1)

\* the position after a match of elements k.. of alt at position i of s, 0 when
\* there is none (`\d+` is always followed by a character that is no digit)
RECURSIVE MatchEnd(_, _, _, _)
MatchEnd(alt, k, s, i) ==
    IF k > Len(alt) THEN i
    ELSE IF i > Len(s) \/ s[i] \notin alt[k].chars THEN 0
    ELSE IF alt[k].many THEN MatchEnd(alt, k + 1, s, RunEnd(alt[k].chars, s, i))
    ELSE MatchEnd(alt, k + 1, s, i + 1)

\* the position after a match of regex at position i of s, 0 when there is none
RegexEnd(regex, s, i) ==
    IF \E a \in DOMAIN regex : MatchEnd(regex[a], 1, s, i) # 0
    THEN LET a == CHOOSE a \in DOMAIN regex :
                      /\ MatchEnd(regex[a], 1, s, i) # 0
                      /\ \A b \in 1..(a - 1) : MatchEnd(regex[b], 1, s, i) = 0
         IN  MatchEnd(regex[a], 1, s, i)
    ELSE 0

\* Mutant: the substitution also drops a character it matches nothing at
RECURSIVE SubFromDropping(_, _, _, _)
SubFromDropping(regex, repl, s, i) ==
    IF i > Len(s) THEN <<>>
    ELSE IF RegexEnd(regex, s, i) # 0
         THEN repl \o SubFromDropping(regex, repl, s, RegexEnd(regex, s, i))
         ELSE IF s[i] = ESC
              THEN SubFromDropping(regex, repl, s, i + 1)
              ELSE <<s[i]>> \o SubFromDropping(regex, repl, s, i + 1)

\* re.sub(regex, repl, s) from position i on: one pass from left to right over
\* the matches that do not overlap
RECURSIVE SubFrom(_, _, _, _)
SubFrom(regex, repl, s, i) ==
    IF i > Len(s) THEN <<>>
    ELSE IF RegexEnd(regex, s, i) # 0
         THEN repl \o SubFrom(regex, repl, s, RegexEnd(regex, s, i))
         ELSE <<s[i]>> \o SubFrom(regex, repl, s, i + 1)

ReSub(regex, repl, s) == SubFrom(regex, repl, s, 1)

\* re.search(regex, s): the position of the leftmost match, 0 when there is none
ReSearch(regex, s) ==
    IF \E i \in DOMAIN s : RegexEnd(regex, s, i) # 0
    THEN CHOOSE i \in DOMAIN s :
             /\ RegexEnd(regex, s, i) # 0
             /\ \A j \in 1..(i - 1) : RegexEnd(regex, s, j) = 0
    ELSE 0

DigitValue(ch) ==
    CASE ch = "0" -> 0 [] ch = "1" -> 1 [] ch = "2" -> 2 [] ch = "3" -> 3
      [] ch = "4" -> 4 [] ch = "5" -> 5 [] ch = "6" -> 6 [] ch = "7" -> 7
      [] ch = "8" -> 8 [] ch = "9" -> 9

\* int(digits)
RECURSIVE ToInt(_)
ToInt(digits) ==
    IF digits = <<>> THEN 0
    ELSE 10 * ToInt(SubSeq(digits, 1, Len(digits) - 1)) + DigitValue(digits[Len(digits)])

\* count * text
RECURSIVE Times(_, _)
Times(count, text) == IF count = 0 THEN <<>> ELSE text \o Times(count - 1, text)

\* group(1) of the match of code_insert_line at position i of s, as a number
InsertLineCount(s, i) ==
    ToInt(SubSeq(s, i + 2, RegexEnd(code_insert_line, s, i) - 2))

\* the loop over code_set: one re.sub after the other, each on the result of
\* the one before
RECURSIVE StripCodes(_, _)
StripCodes(s, n) ==
    IF n > Len(code_set) THEN s ELSE StripCodes(ReSub(code_set[n], <<>>, s), n + 1)

\* line 592, `Substitute each insert_line`: each insert_line gives way to as
\* many returns as its own count says
RECURSIVE InsertLineEach(_, _, _)
InsertLineEach(s, return_str, i) ==
    IF i > Len(s) THEN <<>>
    ELSE IF RegexEnd(code_insert_line, s, i) # 0
         THEN Times(InsertLineCount(s, i), return_str)
                  \o InsertLineEach(s, return_str, RegexEnd(code_insert_line, s, i))
         ELSE <<s[i]>> \o InsertLineEach(s, return_str, i + 1)

\* lines 590-594: the count of the first insert_line stands in for all of them
InsertLines(s, return_str) ==
    IF ReSearch(code_insert_line, s) # 0
    THEN ReSub(code_insert_line,
               Times(InsertLineCount(s, ReSearch(code_insert_line, s)), return_str), s)
    ELSE s

\* strip_ansi_escape_codes
StripAnsiEscapeCodes(string_buffer, return_str) ==
    InsertLines(ReSub(code_next_line, return_str, StripCodes(string_buffer, 1)),
                return_str)

\* every catalogued sequence
Catalogue == {code_set[n] : n \in DOMAIN code_set} \cup {code_next_line, code_insert_line}

\* s holds a catalogued sequence somewhere
HasCode(s) == \E regex \in Catalogue, i \in DOMAIN s : RegexEnd(regex, s, i) # 0

\* what the inputs are put together from: plain characters, whole escape
\* sequences and pieces of them
Fragments ==
    {<<"a">>, <<"K">>, <<"2">>, <<ESC, "[">>,
     <<ESC, "[", "K">>, <<ESC, "[", "2", "K">>, <<ESC, "E">>,
     <<ESC, "[", "1", "L">>, <<ESC, "[", "2", "L">>,
     <<ESC, "[", "1", "D">>, <<ESC, "[", "0", "m">>,
     <<ESC, "[", "?", "2", "5", "h">>, <<ESC, "[", "2", "4", ";", "1", "H">>}

\* fragments put together to make one input
MaxFragments == 3

RECURSIVE Joined(_)
Joined(n) ==
    IF n = 0 THEN {<<>>}
    ELSE Joined(n - 1) \cup {s \o f : s \in Joined(n - 1), f \in Fragments}

AnsiCalls ==
    [fn : {"pending"}, string_buffer : Joined(MaxFragments),
     return_str : {<<"\n">>}, output : {<<>>}]

CallStripAnsiEscapeCodes ==
    /\ applied.fn = "pending"
    /\ applied' = [applied EXCEPT
           !.fn = "strip_ansi_escape_codes",
           !.output = StripAnsiEscapeCodes(applied.string_buffer, applied.return_str)]
    /\ UNCHANGED <<profile, dev, chan, base_prompt, pc, stack, output, check_count,
                   call, log, result, raised, drifts>>
    /\ UNCHANGED <<cmdVerifyVars, prepVars>>

-----------------------------------------------------------------------------
(* utilities.py: write_bytes *)
(* A str is the sequence of its code points, a bytes the sequence of its     *)
(* byte values.                                                               *)

Bytes(t) == [type |-> "bytes", data |-> t]

\* one code point in UTF-8 (up to three bytes, the Basic Multilingual Plane)
Utf8(cp) ==
    IF cp < 128 THEN <<cp>>
    ELSE IF cp < 2048 THEN <<192 + (cp \div 64), 128 + (cp % 64)>>
    ELSE <<224 + (cp \div 4096), 128 + ((cp \div 64) % 64), 128 + (cp % 64)>>

\* str.encode("utf-8")
RECURSIVE EncodeUtf8(_)
EncodeUtf8(text) ==
    IF text = <<>> THEN <<>> ELSE Utf8(Head(text)) \o EncodeUtf8(Tail(text))

IsAscii(cp) == cp < 128

\* str.encode("ascii", "ignore"): a character outside ASCII is left out
EncodeAsciiIgnore(text) == SelectSeq(text, IsAscii)

\* bytes.decode(encoding); <<-1>> stands for UnicodeDecodeError
RECURSIVE DecodeUtf8(_)
DecodeUtf8(bytes) ==
    IF bytes = <<>> THEN <<>>
    ELSE LET b == Head(bytes)
             n == IF b < 128 THEN 1 ELSE IF b >= 192 /\ b < 224 THEN 2
                  ELSE IF b >= 224 /\ b < 240 THEN 3 ELSE 0
         IN  IF n = 0 \/ Len(bytes) < n
                \/ \E k \in 2..n : bytes[k] < 128 \/ bytes[k] >= 192
             THEN <<-1>>
             ELSE LET cp == IF n = 1 THEN b
                            ELSE IF n = 2 THEN (b - 192) * 64 + (bytes[2] - 128)
                            ELSE (b - 224) * 4096 + (bytes[2] - 128) * 64
                                     + (bytes[3] - 128)
                      rest == DecodeUtf8(SubSeq(bytes, n + 1, Len(bytes)))
                  IN  IF rest = <<-1>> THEN <<-1>> ELSE <<cp>> \o rest

Decode(bytes, encoding) ==
    CASE encoding = "utf-8"   -> DecodeUtf8(bytes)
      [] encoding = "latin-1" -> bytes
      [] OTHER                -> IF \A k \in DOMAIN bytes : bytes[k] < 128
                                 THEN bytes
                                 ELSE <<-1>>

\* write_bytes
WriteBytes(out_data, encoding) ==
    IF out_data.type = "str"
    THEN IF encoding = "utf-8"
         THEN Returned(Bytes(EncodeUtf8(out_data.data)))
         ELSE Returned(Bytes(EncodeAsciiIgnore(out_data.data)))
    ELSE IF out_data.type = "bytes"
         THEN Returned(out_data)
         ELSE Raised("ValueError")

\* characters of a str: "A", DEL, U+0080, e-acute, the euro sign
CodePoints == {65, 127, 128, 233, 8364}

\* values of a byte in a bytes input
ByteValues == {65, 233, 255}

\* longest str or bytes written
MaxWrite == 2

RECURSIVE SeqsUpTo(_, _)
SeqsUpTo(set, n) ==
    IF n = 0 THEN {<<>>}
    ELSE SeqsUpTo(set, n - 1) \cup {Append(s, x) : s \in SeqsUpTo(set, n - 1), x \in set}

Encodings == {"ascii", "utf-8", "latin-1"}

OutData ==
    {Str(t) : t \in SeqsUpTo(CodePoints, MaxWrite)}
        \cup {Bytes(t) : t \in SeqsUpTo(ByteValues, MaxWrite)}
        \cup {[type |-> "int", data |-> <<65>>]}

WriteCalls ==
    [fn : {"pending"}, out_data : OutData, encoding : Encodings, outcome : {NoOutcome}]

CallWriteBytes ==
    /\ applied.fn = "pending"
    /\ applied' = [applied EXCEPT
           !.fn = "write_bytes",
           !.outcome = WriteBytes(applied.out_data, applied.encoding)]
    /\ UNCHANGED <<profile, dev, chan, base_prompt, pc, stack, output, check_count,
                   call, log, result, raised, drifts>>
    /\ UNCHANGED <<cmdVerifyVars, prepVars>>

-----------------------------------------------------------------------------
(* SixwindOSBase.set_base_prompt *)

\* calls of set_base_prompt made one after the other
MaxCalls == 2

\* the prompt line as it comes off the wire: a device may pad its prompt with
\* blanks, and a 6WIND device may erase the line (ESC [ K, spelled out
\* character by character) before it prints the prompt
PromptLines(p, d) ==
    LET line == Prompt(p, d)
    IN  {line,
         SubSeq(line, 1, Len(line) - 1) \o <<" ", line[Len(line)]>>,
         <<" ">> \o line}
        \cup (IF p = "sixwind" THEN {<<ESC, "[", "K">> \o line} ELSE {})

\* what a read hands on of the data it took off the channel: with
\* ansi_escape_codes set, strip_ansi_escape_codes is applied to it first
Incoming(data) ==
    IF ansi_escape_codes THEN StripAnsiEscapeCodes(data, <<"\n">>) ELSE data

\* str.strip() on a token text
RECURSIVE StripSpace(_)
StripSpace(text) ==
    IF text = <<>> THEN text
    ELSE IF Head(text) = " " THEN StripSpace(Tail(text))
    ELSE IF text[Len(text)] = " " THEN StripSpace(SubSeq(text, 1, Len(text) - 1))
    ELSE text

\* the string a token text stands for
RECURSIVE JoinText(_)
JoinText(text) ==
    IF text = <<>> THEN "" ELSE Head(text) \o JoinText(Tail(text))

\* the calls of set_base_prompt that returned so far: what each recorded as
\* base_prompt and what each returned
PromptsSet == IF applied.fn = "set_base_prompt" THEN applied ELSE
    [fn |-> "set_base_prompt", recorded |-> <<>>, returned |-> <<>>]

CallSixwindSetBasePrompt ==
    /\ profile = "sixwind"
    /\ Len(PromptsSet.recorded) < MaxCalls
    /\ Begin("set_base_prompt", "bp_clear")

\* set_base_prompt of the base class: the buffer is cleared
BaseSetBasePromptClear ==
    /\ pc = "bp_clear"
    /\ chan' = <<>>
    /\ pc' = "bp_write"
    /\ UNCHANGED <<profile, dev, base_prompt, stack, output, check_count, call, log,
                   result, raised, drifts>>
    /\ UNCHANGED <<cmdVerifyVars, utilVars, prepVars>>

\* a return is written; the device prints its prompt, unless it stays silent;
\* the log keeps whether the line came with a control code
BaseSetBasePromptWrite ==
    /\ pc = "bp_write"
    /\ \E line \in PromptLines(profile, dev) \cup (IF dev.honest THEN {} ELSE {<<>>}) :
           /\ chan' = chan \o line
           /\ log' = Append(log, Ev("write", "", In(ESC, line)))
    /\ pc' = "bp_read"
    /\ UNCHANGED <<profile, dev, base_prompt, stack, output, check_count, call,
                   result, raised, drifts>>
    /\ UNCHANGED <<cmdVerifyVars, utilVars, prepVars>>

\* the line is read, its trailing terminator taken off and the rest recorded;
\* without a terminator the detection fails.  The override of the 6WIND driver
\* goes on from there, any other driver has the prompt returned
BaseSetBasePromptRead ==
    /\ pc = "bp_read"
    /\ LET data == Incoming(chan)
       IN  IF data # <<>> /\ data[Len(data)] \in {">", "#"}
           THEN /\ output' = SubSeq(data, 1, Len(data) - 1)
                /\ base_prompt' = JoinText(SubSeq(data, 1, Len(data) - 1))
                /\ log' = Append(log, Ev("read", "", TRUE))
                /\ pc' = IF profile = "sixwind" THEN "bp_strip" ELSE "bp_return"
                /\ UNCHANGED <<stack, result, raised>>
           ELSE /\ log' = Append(log, Ev("read", "", FALSE))
                /\ Raise("set_base_prompt", "PromptDetectionError",
                         "Router prompt not found", data)
                /\ UNCHANGED base_prompt
    /\ chan' = <<>>
    /\ UNCHANGED <<profile, dev, check_count, call, drifts>>
    /\ UNCHANGED <<cmdVerifyVars, utilVars, prepVars>>

\* `return self.base_prompt` of the base class; the log keeps what was recorded
BaseSetBasePromptReturn ==
    /\ pc = "bp_return"
    /\ log' = Append(log, Ev("base_prompt", base_prompt, TRUE))
    /\ Return(output)
    /\ UNCHANGED <<profile, dev, chan, base_prompt, check_count, call, raised, drifts>>
    /\ UNCHANGED <<cmdVerifyVars, utilVars, prepVars>>

\* Mutant: the prompt of the base class is recorded and returned as it is
SixwindSetBasePromptNoStrip ==
    /\ pc = "bp_strip"
    /\ base_prompt' = JoinText(output)
    /\ Return(output)
    /\ applied' = [PromptsSet EXCEPT !.recorded = Append(@, output),
                                     !.returned = Append(@, output)]
    /\ UNCHANGED <<profile, dev, chan, check_count, call, log, raised, drifts>>
    /\ UNCHANGED <<cmdVerifyVars, prepVars>>

\* `prompt = prompt.strip()`, `self.base_prompt = prompt`,
\* `return self.base_prompt`
SixwindSetBasePrompt ==
    /\ pc = "bp_strip"
    /\ base_prompt' = JoinText(StripSpace(output))
    /\ Return(StripSpace(output))
    /\ applied' = [PromptsSet EXCEPT !.recorded = Append(@, StripSpace(output)),
                                     !.returned = Append(@, StripSpace(output))]
    /\ UNCHANGED <<profile, dev, chan, check_count, call, log, raised, drifts>>
    /\ UNCHANGED <<cmdVerifyVars, prepVars>>

-----------------------------------------------------------------------------
(* session_preparation of the F5, OneAccess and 6WIND drivers, and          *)
(* F5TmshSSH.tmsh_mode.  The body of such a method is the sequence of its   *)
(* statements, each a call of a method of the base class; todo holds the    *)
(* statements still to run.                                                 *)

PrepProfiles == {"f5", "oneaccess", "sixwind"}

\* Mutant: the base prompt is not detected again after tmsh_mode
F5SessionPreparationOneDetection ==
    <<"_test_channel_read", "set_base_prompt", "tmsh_mode",
      "set_terminal_width", "disable_paging", "clear_buffer">>

\* F5TmshSSH.session_preparation
F5SessionPreparation ==
    <<"_test_channel_read", "set_base_prompt", "tmsh_mode", "set_base_prompt",
      "set_terminal_width", "disable_paging", "clear_buffer">>

\* F5TmshSSH.tmsh_mode
F5TmshMode == <<"clear_buffer", "write_channel", "clear_buffer">>

\* Mutant: the buffer is cleared before paging is disabled
OneaccessSessionPreparationClearEarly ==
    <<"_test_channel_read", "set_base_prompt", "set_terminal_width",
      "clear_buffer", "disable_paging">>

\* OneaccessOneOSBase.session_preparation
OneaccessSessionPreparation ==
    <<"_test_channel_read", "set_base_prompt", "set_terminal_width",
      "disable_paging", "clear_buffer">>

\* Mutant: ansi_escape_codes is set once the base prompt has been detected
SixwindSessionPreparationAnsiLate ==
    <<"_test_channel_read", "set_base_prompt", "ansi_escape_codes", "clear_buffer">>

\* SixwindOSBase.session_preparation
SixwindSessionPreparation ==
    <<"ansi_escape_codes", "_test_channel_read", "set_base_prompt", "clear_buffer">>

SessionPreparation(p) ==
    CASE p = "f5"        -> F5SessionPreparation
      [] p = "oneaccess" -> OneaccessSessionPreparation
      [] OTHER           -> SixwindSessionPreparation

\* `command = f"{self.RETURN}tmsh{self.RETURN}"`
TmshCommand == "tmsh"

\* the command and the pattern given to set_terminal_width, the command given
\* to disable_paging
F5Setup ==
    [width |-> "run /util bash -c \"stty cols 255\"", pattern |-> "run",
     paging |-> "modify cli preference pager disabled display-threshold 0"]

OneaccessSetup ==
    [width |-> "stty columns 255", pattern |-> "stty", paging |-> "term len 0"]

Setup(p) == IF p = "f5" THEN F5Setup ELSE OneaccessSetup

\* `re.search(pattern, token)` for the patterns of the setup commands
Shows(pattern, token) ==
    \/ token = pattern
    \/ <<pattern, token>> \in {<<F5Setup.pattern, F5Setup.width>>,
                               <<OneaccessSetup.pattern, OneaccessSetup.width>>}

\* the first position of text at which pattern shows, 0 when it shows nowhere
FirstShown(pattern, text) ==
    IF \E i \in DOMAIN text : Shows(pattern, text[i])
    THEN CHOOSE i \in DOMAIN text :
             /\ Shows(pattern, text[i])
             /\ \A j \in 1..(i - 1) : ~Shows(pattern, text[j])
    ELSE 0

\* the statement to run next
AtStatement(statement) == pc = "sp_next" /\ todo # <<>> /\ Head(todo) = statement

\* session_preparation is called once, on a session whose prompt is not known
CallSessionPreparation ==
    /\ profile \in PrepProfiles
    /\ base_prompt = ""
    /\ Enter("session_preparation", "sp_next")
    /\ todo' = SessionPreparation(profile)
    /\ UNCHANGED ansi_escape_codes

CallF5TmshMode ==
    /\ profile = "f5"
    /\ Enter("tmsh_mode", "sp_next")
    /\ todo' = F5TmshMode
    /\ UNCHANGED ansi_escape_codes

\* `self.ansi_escape_codes = True`
PrepSetAnsi ==
    /\ AtStatement("ansi_escape_codes")
    /\ ansi_escape_codes' = TRUE
    /\ todo' = Tail(todo)
    /\ log' = Append(log, Ev("set", "ansi_escape_codes", TRUE))
    /\ UNCHANGED <<profile, dev, chan, base_prompt, pc, stack, output, check_count,
                   call, result, raised, drifts>>
    /\ UNCHANGED <<cmdVerifyVars, utilVars>>

\* `self._test_channel_read()`: what the device has sent since the login is
\* read; the test fails when nothing has come
PrepTestChannelRead ==
    /\ AtStatement("_test_channel_read")
    /\ IF chan # <<>>
       THEN /\ log' = Append(log, Ev("read", "test", TRUE))
            /\ todo' = Tail(todo)
            /\ UNCHANGED <<pc, stack, output, result, raised>>
       ELSE /\ log' = Append(log, Ev("read", "test", FALSE))
            /\ Raise("_test_channel_read", "ReadTimeout", "Timed out waiting for data",
                     <<>>)
            /\ todo' = <<>>
    /\ chan' = <<>>
    /\ UNCHANGED <<profile, dev, base_prompt, check_count, call, drifts>>
    /\ UNCHANGED <<cmdVerifyVars, utilVars, ansi_escape_codes>>

\* `self.set_base_prompt()`
PrepSetBasePrompt ==
    /\ AtStatement("set_base_prompt")
    /\ todo' = Tail(todo)
    /\ Invoke("bp_clear", "sp_next")
    /\ UNCHANGED <<profile, dev, chan, base_prompt, check_count, call, log, result,
                   raised, drifts>>
    /\ UNCHANGED <<cmdVerifyVars, utilVars, ansi_escape_codes>>

\* `self.tmsh_mode()`: its statements come next; it has no local the caller
\* could see and returns nothing
PrepTmshMode ==
    /\ AtStatement("tmsh_mode")
    /\ todo' = F5TmshMode \o Tail(todo)
    /\ UNCHANGED <<profile, dev, chan, base_prompt, pc, stack, output, check_count,
                   call, log, result, raised, drifts>>
    /\ UNCHANGED <<cmdVerifyVars, utilVars, ansi_escape_codes>>

\* `self.write_channel(command)` of tmsh_mode
PrepWriteChannel ==
    /\ AtStatement("write_channel")
    /\ WriteChannel(TmshCommand)
    /\ todo' = Tail(todo)
    /\ UNCHANGED <<profile, base_prompt, pc, stack, output, check_count, call, result,
                   raised, drifts>>
    /\ UNCHANGED <<cmdVerifyVars, utilVars, ansi_escape_codes>>

\* `self.clear_buffer()`
PrepClearBuffer ==
    /\ AtStatement("clear_buffer")
    /\ chan' = <<>>
    /\ log' = Append(log, Ev("clear", "", chan # <<>>))
    /\ todo' = Tail(todo)
    /\ UNCHANGED <<profile, dev, base_prompt, pc, stack, output, check_count, call,
                   result, raised, drifts>>
    /\ UNCHANGED <<cmdVerifyVars, utilVars, ansi_escape_codes>>

\* a setup command is written and the channel read until pattern shows: the
\* read takes what has come by then, at least up to the pattern, and leaves
\* the rest on the channel; ReadTimeout when the pattern does not show
SetupExchange(command, pattern) ==
    \E r \in React(profile, dev, command) :
        LET arrived == chan \o r.reply
            first == FirstShown(pattern, arrived)
        IN  /\ dev' = r.dev
            /\ IF first # 0
               THEN /\ \E n \in first..Len(arrived) :
                           chan' = SubSeq(arrived, n + 1, Len(arrived))
                    /\ log' = log \o <<Ev("write", command, FALSE),
                                       Ev("read", pattern, TRUE)>>
                    /\ todo' = Tail(todo)
                    /\ UNCHANGED <<pc, stack, output, result, raised>>
               ELSE /\ chan' = <<>>
                    /\ log' = log \o <<Ev("write", command, FALSE),
                                       Ev("read", pattern, FALSE)>>
                    /\ Raise("read", "ReadTimeout", "Pattern not detected", arrived)
                    /\ todo' = <<>>

\* `self.set_terminal_width(command=cmd, pattern=...)`
PrepSetTerminalWidth ==
    /\ AtStatement("set_terminal_width")
    /\ SetupExchange(Setup(profile).width, Setup(profile).pattern)
    /\ UNCHANGED <<profile, base_prompt, check_count, call, drifts>>
    /\ UNCHANGED <<cmdVerifyVars, utilVars, ansi_escape_codes>>

\* `self.disable_paging(command=...)`: the read is for the echo of the command
PrepDisablePaging ==
    /\ AtStatement("disable_paging")
    /\ SetupExchange(Setup(profile).paging, Setup(profile).paging)
    /\ UNCHANGED <<profile, base_prompt, check_count, call, drifts>>
    /\ UNCHANGED <<cmdVerifyVars, utilVars, ansi_escape_codes>>

\* the end of the body: the method returns None
PrepReturn ==
    /\ pc = "sp_next"
    /\ todo = <<>>
    /\ Return(<<>>)
    /\ UNCHANGED <<profile, dev, chan, base_prompt, check_count, call, log, raised,
                   drifts>>
    /\ UNCHANGED <<cmdVerifyVars, utilVars, prepVars>>

-----------------------------------------------------------------------------
(* send_command and send_command_timing of the base class, with default    *)
(* stripping, as the tests of test_netmiko_show.py call them                *)

CallSendCommand == Begin("send_command", "sd_write")

CallSendCommandTiming == Begin("send_command_timing", "sd_write")

\* the command is written
SendCommandWrite ==
    /\ pc = "sd_write"
    /\ \E cmd \in ArgValues : WriteChannel(cmd)
    /\ pc' = "sd_read"
    /\ UNCHANGED <<profile, base_prompt, stack, output, check_count, call, result,
                   raised, drifts>>
    /\ UNCHANGED <<cmdVerifyVars, utilVars, prepVars>>

\* the command written by the call
Sent == log[1].arg

\* Mutant: the prompt that ends the response is left in place
SanitizeKeepPrompt(cmd, text) == StripCommand(cmd, text)

\* the echo of the command is taken off the start of the response and the
\* prompt off its end
Sanitize(cmd, text) == StripPrompt(StripCommand(cmd, text))

\* pattern strategy: the channel is read until the prompt shows, ReadTimeout
\* when it does not; the response is returned sanitized
SendCommandRead ==
    /\ pc = "sd_read"
    /\ call.op = "send_command"
    /\ IF In(base_prompt, chan)
       THEN /\ log' = Append(log, Ev("read", "", TRUE))
            /\ Return(Sanitize(Sent, chan))
            /\ UNCHANGED raised
       ELSE /\ log' = Append(log, Ev("read", "", FALSE))
            /\ Raise("read", "ReadTimeout", "Pattern not detected", chan)
    /\ chan' = <<>>
    /\ UNCHANGED <<profile, dev, base_prompt, check_count, call, drifts>>
    /\ UNCHANGED <<cmdVerifyVars, utilVars, prepVars>>

\* timing strategy: what is there after the delay is read and returned
\* sanitized
SendCommandTimingRead ==
    /\ pc = "sd_read"
    /\ call.op = "send_command_timing"
    /\ log' = Append(log, Ev("read", "", chan # <<>>))
    /\ Return(Sanitize(Sent, chan))
    /\ chan' = <<>>
    /\ UNCHANGED <<profile, dev, base_prompt, check_count, call, raised, drifts>>
    /\ UNCHANGED <<cmdVerifyVars, utilVars, prepVars>>

-----------------------------------------------------------------------------
(* Specifications *)

\* the states a device can be in: a Mellanox device is in configuration mode
\* only when privileged; the 6WIND device has no privileged tier to speak of
Devices(p) ==
    { d \in [priv : BOOLEAN, depth : 0..MaxDepth, honest : BOOLEAN] :
          p = "mellanox" => (d.depth > 0 => d.priv) }

NoCall == [op |-> "none", k |-> 0, snap |-> <<>>]

NotCalled == [called |-> FALSE,
              given |-> [obj |-> "None", args |-> <<>>, kwargs |-> <<>>],
              ret |-> <<"None", <<>>, <<>>>>]

\* no utility function has been applied
NotApplied == [fn |-> "none"]

Init ==
    /\ profile \in Profiles
    /\ dev \in Devices(profile)
    /\ chan = <<>>
    /\ base_prompt = HostName(profile)
    /\ global_cmd_verify = "False"
    /\ pc = "idle"
    /\ stack = <<>>
    /\ output = <<>>
    /\ check_count = 0
    /\ call = NoCall
    /\ log = <<>>
    /\ result = NoResult
    /\ raised = {}
    /\ drifts = 0
    /\ received = NotCalled
    /\ applied = NotApplied
    /\ ansi_escape_codes = (profile = "sixwind")
    /\ todo = <<>>

Next ==
    \/ Drift
    \/ CallMlxEnable
    \/ MlxEnableCheck
    \/ MlxEnableWrite
    \/ MlxEnableRead
    \/ MlxEnableRecheck
    \/ CallMlxExitConfigMode
    \/ MlxExitStart
    \/ MlxExitLoop
    \/ MlxExitWrite
    \/ MlxExitRead
    \/ MlxExitFinal
    \/ CallConfigMode
    \/ BaseConfigCheck
    \/ BaseConfigWrite
    \/ BaseConfigRead
    \/ BaseConfigRecheck
    \/ CallSixwindExitConfigMode
    \/ BaseExitCheck
    \/ BaseExitWrite
    \/ BaseExitRead
    \/ BaseExitRecheck
    \/ CallSixwindCheckEnableMode
    \/ CallSixwindEnable
    \/ CallSixwindExitEnableMode
    \/ SixwindCheckEnableMode
    \/ SixwindEnable
    \/ SixwindExitEnableMode
    \/ CallSixwindCommit
    \/ SixwindCommitConfig
    \/ SixwindCommitSend
    \/ SixwindCommitRead
    \/ SixwindCommitExit
    \/ SixwindCommitTest
    \/ CallMlxSaveConfig
    \/ MlxSaveEnable
    \/ MlxSaveConfigMode
    \/ MlxSaveSend
    \/ MlxSaveRead
    \/ MlxSaveExit
    \/ MlxSaveReturn

Spec == Init /\ [][Next]_vars

\* the decorator on its own: the session stays idle
NextCmdVerify ==
    \/ CallBogusFunc
    \/ SetGlobalCmdVerify

InitCmdVerify ==
    /\ Init
    /\ profile = "mellanox"
    /\ dev = [priv |-> FALSE, depth |-> 0, honest |-> TRUE]

SpecCmdVerify == InitCmdVerify /\ [][NextCmdVerify]_vars

\* an idle session on which only functions of utilities.py are applied
IdleSession ==
    /\ profile = "mellanox"
    /\ dev = [priv |-> FALSE, depth |-> 0, honest |-> TRUE]
    /\ chan = <<>>
    /\ base_prompt = HostName(profile)
    /\ global_cmd_verify = "False"
    /\ pc = "idle"
    /\ stack = <<>>
    /\ output = <<>>
    /\ check_count = 0
    /\ call = NoCall
    /\ log = <<>>
    /\ result = NoResult
    /\ raised = {}
    /\ drifts = 0
    /\ received = NotCalled
    /\ ansi_escape_codes = FALSE
    /\ todo = <<>>

\* the structured-data hooks, each applied to every call in HookCalls
InitHooks == IdleSession /\ applied \in HookCalls

NextHooks ==
    \/ CallGetStructuredData
    \/ CallGetStructuredDataTtp
    \/ CallGetStructuredDataGenie

SpecHooks == InitHooks /\ [][NextHooks]_vars

\* get_template_dir applied to every call in TemplateDirCalls
InitTemplateDir == IdleSession /\ applied \in TemplateDirCalls

NextTemplateDir == CallGetTemplateDir

SpecTemplateDir == InitTemplateDir /\ [][NextTemplateDir]_vars

\* strip_ansi_escape_codes applied to every input in AnsiCalls
InitAnsi == IdleSession /\ applied \in AnsiCalls

NextAnsi == CallStripAnsiEscapeCodes

SpecAnsi == InitAnsi /\ [][NextAnsi]_vars

\* write_bytes applied to every input in WriteCalls
InitWrite == IdleSession /\ applied \in WriteCalls

NextWrite == CallWriteBytes

SpecWrite == InitWrite /\ [][NextWrite]_vars

\* set_base_prompt called again and again on a 6WIND session
InitBasePrompt == Init /\ profile = "sixwind"

NextBasePrompt ==
    \/ CallSixwindSetBasePrompt
    \/ BaseSetBasePromptClear
    \/ BaseSetBasePromptWrite
    \/ BaseSetBasePromptRead
    \/ SixwindSetBasePrompt

SpecBasePrompt == InitBasePrompt /\ [][NextBasePrompt]_vars

\* a caller that writes to the channel and clears the buffer, as the test does
NextClearBuffer ==
    \/ TestWriteChannel
    \/ CallClearBuffer
    \/ ClearBuffer

SpecClearBuffer == Init /\ [][NextClearBuffer]_vars

\* the devices a session is opened to
PrepDevices(p) ==
    { d \in [priv : BOOLEAN, depth : 0..1, honest : BOOLEAN] :
          p = "oneaccess" => (d.depth > 0 => d.priv) }

\* a session just opened: the device has printed its prompt (or, a device that
\* may stay silent, nothing), the base prompt is not known
InitPrep ==
    /\ profile \in PrepProfiles
    /\ dev \in PrepDevices(profile)
    /\ chan \in {Prompt(profile, dev)} \cup (IF dev.honest THEN {} ELSE {<<>>})
    /\ base_prompt = ""
    /\ global_cmd_verify = "False"
    /\ pc = "idle"
    /\ stack = <<>>
    /\ output = <<>>
    /\ check_count = 0
    /\ call = NoCall
    /\ log = <<>>
    /\ result = NoResult
    /\ raised = {}
    /\ drifts = 0
    /\ received = NotCalled
    /\ applied = NotApplied
    /\ ansi_escape_codes = FALSE
    /\ todo = <<>>

\* session_preparation, and tmsh_mode called on its own
NextPrep ==
    \/ Drift
    \/ CallSessionPreparation
    \/ CallF5TmshMode
    \/ PrepSetAnsi
    \/ PrepTestChannelRead
    \/ PrepSetBasePrompt
    \/ PrepTmshMode
    \/ PrepWriteChannel
    \/ PrepClearBuffer
    \/ PrepSetTerminalWidth
    \/ PrepDisablePaging
    \/ PrepReturn
    \/ BaseSetBasePromptClear
    \/ BaseSetBasePromptWrite
    \/ BaseSetBasePromptRead
    \/ BaseSetBasePromptReturn
    \/ SixwindSetBasePrompt

SpecPrep == InitPrep /\ [][NextPrep]_vars

\* commands executed one after the other on a prepared session
NextSend ==
    \/ CallSendCommand
    \/ CallSendCommandTiming
    \/ SendCommandWrite
    \/ SendCommandRead
    \/ SendCommandTimingRead

SpecSend == Init /\ [][NextSend]_vars

\* MellanoxMlnxosSSH.exit_config_mode on its own, for its termination.  The
\* method is sequential code: a step that can be taken is taken, given that
\* each check and each read itself returns or raises.
MlxExitStep ==
    \/ MlxExitStart
    \/ MlxExitLoop
    \/ MlxExitWrite
    \/ MlxExitRead
    \/ MlxExitFinal

NextMlxExit ==
    \/ Drift
    \/ CallMlxExitConfigMode
    \/ MlxExitStart
    \/ MlxExitLoop
    \/ MlxExitWrite
    \/ MlxExitRead
    \/ MlxExitFinal

FairSpecMlxExit == Init /\ [][NextMlxExit]_vars /\ WF_vars(MlxExitStep)

-----------------------------------------------------------------------------
(* What a call did, read off its log *)

IsCheck(e) == e.ev = "check"

IsRead(e) == e.ev = "read"

IsWrite(e) == e.ev = "write"

IsExitWrite(e) == e.ev = "write" /\ e.arg = "exit"

IsEnableWrite(e) == e.ev = "write" /\ e.arg = "enable"

Checks == SelectSeq(log, IsCheck)

ExitsWritten == Len(SelectSeq(log, IsExitWrite))

EnablesWritten == Len(SelectSeq(log, IsEnableWrite))

\* the call of op on a session of profile p has ended
Ended(p, op) ==
    profile = p /\ call.op = op /\ pc = "idle" /\ result.status # "none"

\* the last mode check the call made answered b
LastCheckWas(b) == Len(Checks) > 0 /\ Checks[Len(Checks)].ans = b

-----------------------------------------------------------------------------
(* Claims *)

\* C1: Mellanox exit_config_mode against a device that leaves configuration
\* mode after exactly k exits, 0 <= k <= 12, returns normally, has written
\* exactly k exit commands, and its last check_config_mode returned false.
C1_ExitWithinCeiling ==
    (Ended("mellanox", "exit_config_mode") /\ dev.honest /\ call.k <= 12)
        => /\ result.status = "ok"
           /\ ExitsWritten = call.k
           /\ LastCheckWas(FALSE)

C1_Witness ==
    /\ Ended("mellanox", "exit_config_mode")
    /\ dev.honest
    /\ call.k = 12
    /\ result.status = "ok"
    /\ ExitsWritten = 12
    /\ LastCheckWas(FALSE)

\* C2: the exit command is written at most 12 times in one call of Mellanox
\* exit_config_mode, and against a device that needs more than 12 exits the
\* call ends with the failure-to-exit error.
C2_CeilingIsTwelve ==
    (profile = "mellanox" /\ call.op = "exit_config_mode")
        => /\ ExitsWritten <= 12
           /\ (Ended("mellanox", "exit_config_mode") /\ dev.honest /\ call.k > 12)
                  => (result.status = "error" /\ result.kind = "ValueError")

\* C3: every call of Mellanox exit_config_mode ends, after at most
\* CheckCount + 1 passes of the loop, whatever the device answers.
C3_ExitTerminates ==
    /\ [](call.op = "exit_config_mode" => Len(Checks) <= CheckCount + 2)
    /\ (call.op = "exit_config_mode" /\ pc # "idle") ~> (pc = "idle")

C3_Witness ==
    /\ Ended("mellanox", "exit_config_mode")
    /\ ~dev.honest
    /\ ExitsWritten = CheckCount + 1
    /\ result.status = "error"
    /\ result.kind = "ValueError"

\* C4: with global_cmd_verify set, the wrapped function gets cmd_verify equal
\* to the global flag, whatever the caller passed, also when it passed none.
C4_GlobalOverrides ==
    (received.called /\ received.given.obj # "None")
        => /\ "cmd_verify" \in DOMAIN received.ret[3]
           /\ received.ret[3]["cmd_verify"] = received.given.obj

C4_Witness ==
    /\ received.called
    /\ received.given.obj = "False"
    /\ "cmd_verify" \in DOMAIN received.given.kwargs
    /\ received.given.kwargs["cmd_verify"] = "True"
    /\ received.ret[3]["cmd_verify"] = "False"

\* C5: with global_cmd_verify None, the wrapped function gets exactly the
\* caller's cmd_verify, and no cmd_verify at all when the caller gave none.
C5_NoneTracksCaller ==
    (received.called /\ received.given.obj = "None")
        => /\ ("cmd_verify" \in DOMAIN received.ret[3])
                  <=> ("cmd_verify" \in DOMAIN received.given.kwargs)
           /\ "cmd_verify" \in DOMAIN received.given.kwargs
                  => received.ret[3]["cmd_verify"] = received.given.kwargs["cmd_verify"]

C5_Witness ==
    /\ received.called
    /\ received.given.obj = "None"
    /\ "cmd_verify" \in DOMAIN received.given.kwargs
    /\ received.given.kwargs["cmd_verify"] = "True"
    /\ received.ret[3]["cmd_verify"] = "True"

\* C6: whenever Mellanox enable() returns normally its last check_enable_mode
\* returned true, and a check_enable_mode made right after returns true.
C6_EnableReturnsEnabled ==
    (Ended("mellanox", "enable") /\ result.status = "ok")
        => (LastCheckWas(TRUE) /\ CheckEnableMode)

C6_Witness ==
    /\ Ended("mellanox", "enable")
    /\ result.status = "ok"
    /\ EnablesWritten = 1
    /\ ~call.snap[3].priv
    /\ CheckEnableMode

\* C7: Mellanox enable() on a session already in enable mode writes nothing,
\* reads nothing and returns the empty string.
C7_EnableNoOp ==
    (profile = "mellanox" /\ call.op = "enable" /\ Len(log) > 0 /\ log[1].ans)
        => /\ log = <<Ev("check", "enable", TRUE)>>
           /\ pc = "idle"
           /\ result.status = "ok"
           /\ result.value = <<>>
           /\ <<base_prompt, chan>> = <<call.snap[1], call.snap[2]>>
           /\ drifts = 0 => dev = call.snap[3]

C7_Witness ==
    /\ Ended("mellanox", "enable")
    /\ log = <<Ev("check", "enable", TRUE)>>
    /\ result.value = <<>>

\* C8: one call of Mellanox enable() writes the enable command at most once,
\* and ends with an error when check_enable_mode is still false after it.
C8_EnableNoRetry ==
    (profile = "mellanox" /\ call.op = "enable")
        => /\ EnablesWritten <= 1
           /\ (Len(Checks) >= 2 /\ LastCheckWas(FALSE))
                  => (pc = "idle" /\ result.status = "error")

C8_Witness ==
    /\ Ended("mellanox", "enable")
    /\ EnablesWritten = 1
    /\ Len(Checks) = 2
    /\ LastCheckWas(FALSE)
    /\ result.status = "error"

\* C9: on 6WIND check_enable_mode returns true in every session state, and
\* enable and exit_enable_mode write nothing, read nothing, change no session
\* state and return the empty string.
C9_SixwindNoEnableTier ==
    (profile = "sixwind"
     /\ call.op \in {"check_enable_mode", "enable", "exit_enable_mode"})
        => /\ log = <<>>
           /\ <<base_prompt, chan>> = <<call.snap[1], call.snap[2]>>
           /\ drifts = 0 => dev = call.snap[3]
           /\ pc = "idle"
                  => /\ result.status = "ok"
                     /\ result.value = <<>>
                     /\ (call.op = "check_enable_mode") => result.flag

C9_Witness ==
    /\ Ended("sixwind", "enable")
    /\ ~dev.priv
    /\ dev.depth > 0
    /\ result.status = "ok"
    /\ result.value = <<>>

\* C10: 'enable mode not entered', 'configuration mode not exited' and 'commit
\* failed' are reported as error kinds distinct from one another and from a
\* read timeout.
C10_DistinctErrorKinds ==
    \A a, b \in raised :
        (/\ a[1] \in {"enable", "exit_config_mode", "commit", "read"}
         /\ b[1] \in {"enable", "exit_config_mode", "commit", "read"}
         /\ a[1] # b[1])
            => a[2] # b[2]

Hooks == {"get_structured_data", "get_structured_data_ttp",
          "get_structured_data_genie"}

\* C11: whatever the arguments and whatever the parsing backend does, each of
\* the three structured-data hooks returns a value and never ends with an error.
C11_HooksNeverRaise ==
    applied.fn \in Hooks => applied.outcome.status = "returned"

\* the call gave the hook nothing to parse with, or the parser failed or found
\* nothing
ParsingFell ==
    \/ applied.parsed \notin {"list", "dict"}
    \/ applied.fn = "get_structured_data_ttp" /\ applied.template = "None"
    \/ /\ applied.fn = "get_structured_data"
       /\ applied.template = "None"
       /\ (applied.platform = <<>> \/ applied.command = "None")

\* C12: a hook returns non-empty structured data or the raw_output it was
\* given; when parsing fails, has no template or finds nothing, it returns the
\* raw_output, and it never returns an empty list or dict.
C12_StructuredOrRaw ==
    applied.fn \in Hooks
        => /\ applied.outcome.status = "returned"
           /\ \/ applied.outcome.value = Str(applied.raw_output)
              \/ /\ applied.outcome.value.type \in {"list", "dict"}
                 /\ applied.outcome.value.data # <<>>
           /\ ParsingFell => applied.outcome.value = Str(applied.raw_output)

StrippedAnsi == applied.fn = "strip_ansi_escape_codes"

\* C13: strip_ansi_escape_codes is idempotent, also on sequences nested in one
\* another: applied to its own output it changes nothing, and its output
\* holds no catalogued escape sequence.
C13_StripIdempotent ==
    StrippedAnsi
        => /\ StripAnsiEscapeCodes(applied.output, applied.return_str) = applied.output
           /\ ~HasCode(applied.output)

\* C14: every insert-line sequence ESC[nL gives way to n copies of the return
\* string, n being its own count, also when several of them with different
\* counts stand in one input.
C14_InsertLineOwnCount ==
    StrippedAnsi
        => applied.output =
               InsertLineEach(ReSub(code_next_line, applied.return_str,
                                    StripCodes(applied.string_buffer, 1)),
                              applied.return_str, 1)

\* C15: a text that holds none of the catalogued sequences, a text without ESC
\* above all, comes back unchanged, character for character.
C15_CleanTextUnchanged ==
    (StrippedAnsi /\ ~HasCode(applied.string_buffer))
        => applied.output = applied.string_buffer

C15_Witness ==
    /\ StrippedAnsi
    /\ ~HasCode(applied.string_buffer)
    /\ In(ESC, applied.string_buffer)
    /\ Len(applied.string_buffer) >= 4
    /\ applied.output = applied.string_buffer

\* C19: the bytes write_bytes returns for a string decode, with the encoding of
\* the session, to that same string, and a bytes input comes back as the
\* identical bytes.
C19_WriteUnchanged ==
    applied.fn = "write_bytes"
        => /\ applied.out_data.type = "str"
                  => /\ applied.outcome.status = "returned"
                     /\ Decode(applied.outcome.value.data, applied.encoding)
                            = applied.out_data.data
           /\ applied.out_data.type = "bytes"
                  => applied.outcome = Returned(applied.out_data)

IsCommitWrite(e) == e.ev = "write" /\ e.arg = "commit"

IsMarkerAnswer(e) == IsCommitWrite(e) /\ e.ans

\* the commit command was written
CommitWritten == Len(SelectSeq(log, IsCommitWrite)) > 0

\* the device's response to the commit command bore the error marker
MarkerAnswered == Len(SelectSeq(log, IsMarkerAnswer)) > 0

\* the call ended with `raise ValueError("Commit failed ...")`
CommitFailed ==
    /\ result.status = "error"
    /\ result.msg = "Commit failed with following errors:"

\* exit_config_mode, the last thing commit does on the channel, returned: its
\* last check found the session out of configuration mode
ExitReturned ==
    /\ CommitWritten
    /\ log[Len(log)] = Ev("check", "config", FALSE)

IsSaveWrite(e) == e.ev = "write" /\ e.arg = SaveCommand

\* config_mode returned, so the session was in configuration mode, and the save
\* command was sent
SaveWritten == Len(SelectSeq(log, IsSaveWrite)) > 0

\* exit_config_mode was run after the save command: it checked the mode
ExitConfigRan ==
    \E i, j \in DOMAIN log : i < j /\ IsSaveWrite(log[i]) /\ IsCheck(log[j])

\* the call ended with the error of the save command: its read timed out
SaveCommandFailed ==
    /\ result.status = "error"
    /\ result.kind = "ReadTimeout"
    /\ Len(log) >= 2
    /\ IsSaveWrite(log[Len(log) - 1])
    /\ log[Len(log)] = Ev("read", "", FALSE)

\* C17: when a Mellanox save_config that entered configuration mode completes,
\* by returning or with an error of the save command, exit_config_mode has been
\* run and the session is no longer in configuration mode (no one else having
\* touched the device meanwhile).
C17_SaveLeavesConfigMode ==
    (/\ Ended("mellanox", "save_config")
     /\ SaveWritten
     /\ drifts = 0
     /\ result.status = "ok" \/ SaveCommandFailed)
        => ExitConfigRan /\ ~MlxCheckConfigMode

\* C18: 6WIND set_base_prompt called twice in succession, the device's prompt
\* unchanged, records the same base_prompt both times; what it returns is
\* the base_prompt of the session, and that has no blank in front or behind.
C18_BasePromptIdempotent ==
    (Ended("sixwind", "set_base_prompt") /\ result.status = "ok")
        => /\ \A i \in DOMAIN applied.recorded :
                  /\ applied.returned[i] = applied.recorded[i]
                  /\ applied.recorded[i] # <<>>
                  /\ Head(applied.recorded[i]) # " "
                  /\ applied.recorded[i][Len(applied.recorded[i])] # " "
                  /\ i > 1 => applied.recorded[i] = applied.recorded[i - 1]
           /\ result.value = applied.recorded[Len(applied.recorded)]
           /\ base_prompt = JoinText(result.value)

C18_Witness ==
    /\ Ended("sixwind", "set_base_prompt")
    /\ result.status = "ok"
    /\ Len(applied.recorded) = 2
    /\ applied.recorded[2] = applied.recorded[1]
    /\ base_prompt = "vsr"

C22_ExitOnlyAfterTrueCheck ==
    (profile = "mellanox" /\ call.op = "exit_config_mode")
        => \A i \in DOMAIN log :
               /\ IsExitWrite(log[i])
                      => (i > 1 /\ log[i - 1] = Ev("check", "config", TRUE))
               /\ log[i] = Ev("check", "config", FALSE)
                      => \A j \in (i + 1)..Len(log) : ~IsExitWrite(log[j])

C22_Witness ==
    /\ Ended("mellanox", "exit_config_mode")
    /\ ExitsWritten = 2
    /\ log[Len(log) - 1] = Ev("check", "config", FALSE)
    /\ log[Len(log)] = Ev("check", "config", FALSE)
    /\ result.status = "ok"

\* enable() has returned normally before position i of the log: one of its
\* checks of the enable mode answered true
EnableReturnedBefore(i) ==
    \E j \in 1..(i - 1) : log[j] = Ev("check", "enable", TRUE)

\* the config-mode command or the save command
IsConfigOrSaveWrite(e) == IsWrite(e) /\ e.arg \in {"config term", SaveCommand}

\* the call ended with an error of enable(): its second check answered false,
\* or its read timed out
EnableFailed ==
    /\ result.status = "error"
    /\ \/ result.msg = "Failed to enter enable mode."
       \/ /\ Len(log) >= 2
          /\ IsEnableWrite(log[Len(log) - 1])
          /\ log[Len(log)] = Ev("read", "", FALSE)

\* C23: Mellanox save_config writes the config-mode command, and the save
\* command, only after enable() has returned normally; when enable() ends with
\* an error the call has written neither.
C23_ConfigOnlyAfterEnable ==
    (profile = "mellanox" /\ call.op = "save_config")
        => /\ \A i \in DOMAIN log :
                  IsConfigOrSaveWrite(log[i]) => EnableReturnedBefore(i)
           /\ (pc = "idle" /\ EnableFailed)
                  => \A i \in DOMAIN log : ~IsConfigOrSaveWrite(log[i])

C23_Witness ==
    /\ profile = "mellanox"
    /\ call.op = "save_config"
    /\ EnablesWritten = 1
    /\ \E i \in DOMAIN log :
           /\ log[i] = Ev("write", "config term", FALSE)
           /\ EnableReturnedBefore(i)

\* a save_config that ended with the error of enable()
C23_WitnessEnableFailed ==
    /\ Ended("mellanox", "save_config")
    /\ EnableFailed
    /\ EnablesWritten = 1

\* C24: a read of the Mellanox exit_config_mode loop that times out ends the
\* call there and then with the read-timeout error: the failed read is the
\* last thing the call did on the channel, no exit is written and no mode is
\* checked after it, and the error is not the failure-to-exit error.
C24_ReadTimeoutEndsCall ==
    (profile = "mellanox" /\ call.op = "exit_config_mode")
        => \A i \in DOMAIN log :
               log[i] = Ev("read", "", FALSE)
                   => /\ i = Len(log)
                      /\ pc = "idle"
                      /\ result.status = "error"
                      /\ result.kind = "ReadTimeout"
                      /\ result.msg # "Failed to exit configuration mode"

C24_Witness ==
    /\ Ended("mellanox", "exit_config_mode")
    /\ ExitsWritten = 2
    /\ log[Len(log)] = Ev("read", "", FALSE)
    /\ result.kind = "ReadTimeout"
    /\ MlxCheckConfigMode

\* the steps of commit in the log, in their order: config_mode checked the
\* mode first, the commit command was written after config_mode's last event
\* and its response read, and exit_config_mode checked the mode after that
CommitStepsInOrder ==
    \E i \in DOMAIN log :
        /\ IsCommitWrite(log[i])
        /\ i > 1
        /\ log[1].ev = "check"
        /\ log[i - 1] = Ev("check", "config", TRUE)
        /\ \A j \in 1..(i - 1) : log[j].arg # "exit"
        /\ Len(log) >= i + 2
        /\ log[i + 1] = Ev("read", "", TRUE)
        /\ log[i + 2].ev = "check"
        /\ \A j \in (i + 1)..Len(log) : ~IsCommitWrite(log[j])

\* C25: whenever 6WIND commit ends with the commit-failed error, config_mode,
\* the commit command and exit_config_mode have run in this order and
\* exit_config_mode has returned normally: the marker is tested only then.
C25_ExitBeforeCommitFailure ==
    (Ended("sixwind", "commit") /\ CommitFailed)
        => /\ CommitStepsInOrder
           /\ ExitReturned
           /\ result.kind = "ValueError"

C25_Witness ==
    /\ Ended("sixwind", "commit")
    /\ CommitFailed
    /\ CommitStepsInOrder
    /\ ExitsWritten = 1
    /\ log[Len(log)] = Ev("check", "config", FALSE)
    /\ ~SixwindCheckConfigMode

\* the keyword arguments of kwargs other than cmd_verify
OtherKwargs(kwargs) == DOMAIN kwargs \ {"cmd_verify"}

\* C30: the wrapper of select_cmd_verify hands the wrapped function the
\* caller's object, positional arguments and keyword arguments other than
\* cmd_verify as they were given and returns what the function returned, and a
\* call leaves the session's global_cmd_verify as it was.
C30_OnlyCmdVerifyChanges ==
    /\ [](received.called
             => /\ received.ret[1] = received.given.obj
                /\ received.ret[2] = received.given.args
                /\ OtherKwargs(received.ret[3]) = OtherKwargs(received.given.kwargs)
                /\ \A n \in OtherKwargs(received.given.kwargs) :
                       received.ret[3][n] = received.given.kwargs[n])
    /\ [][received' # received => global_cmd_verify' = global_cmd_verify]_vars

C30_Witness ==
    /\ received.called
    /\ received.given.obj = "True"
    /\ global_cmd_verify = "True"
    /\ Len(received.given.args) = 2
    /\ received.ret[2] = <<"show ip", "show version">>
    /\ DOMAIN received.given.kwargs = {"strip_prompt"}
    /\ DOMAIN received.ret[3] = {"cmd_verify", "strip_prompt"}
    /\ received.ret[3]["strip_prompt"] = "False"

\* the F5 device is in tmsh: its prompt is the one of tmsh
InTmsh == Prompt("f5", dev) = <<"root@(bigip)(tmos)", "#">>

IsTmshWrite(e) == e.ev = "write" /\ e.arg = TmshCommand

\* C29: F5 tmsh_mode checks the mode again after it has written the tmsh
\* command, and whenever it returns normally the session is in tmsh.
C29_TmshModeValidates ==
    (Ended("f5", "tmsh_mode") /\ result.status = "ok")
        => /\ InTmsh
           /\ \E i, j \in DOMAIN log :
                  i < j /\ IsTmshWrite(log[i]) /\ IsCheck(log[j])

\* a base prompt was recorded
IsDetection(e) == e.ev = "base_prompt"

\* the base prompts recorded in the call, in their order
Detections == SelectSeq(log, IsDetection)

\* C26: when F5 session_preparation returns, the base prompt of the session is
\* the one recorded by the last detection of the call, and that detection, from
\* the return it wrote to the prompt it recorded, ran after the tmsh command had
\* been written.
C26_BasePromptAfterTmsh ==
    (Ended("f5", "session_preparation") /\ result.status = "ok")
        => \E i, j \in DOMAIN log :
               /\ IsTmshWrite(log[i])
               /\ i < j - 2
               /\ log[j - 2] = Ev("write", "", FALSE)
               /\ log[j - 1] = Ev("read", "", TRUE)
               /\ log[j] = Ev("base_prompt", base_prompt, TRUE)
               /\ \A k \in (j + 1)..Len(log) : ~IsDetection(log[k])

C26_Witness ==
    /\ Ended("f5", "session_preparation")
    /\ result.status = "ok"
    /\ Len(Detections) = 2
    /\ Detections[1].arg = "[root@bigip]"
    /\ Detections[2].arg = "root@(bigip)(tmos)"
    /\ base_prompt = "root@(bigip)(tmos)"

IsChannelEvent(e) == e.ev \in {"read", "write", "clear"}

\* what the call did on the channel, in order
ChannelLog == SelectSeq(log, IsChannelEvent)

\* a terminal-width or paging-disable command was written
IsSetupWrite(e) ==
    IsWrite(e) /\ e.arg \in {F5Setup.width, F5Setup.paging,
                             OneaccessSetup.width, OneaccessSetup.paging}

\* a base-prompt detection read its prompt line
IsPromptRead(e) == e = Ev("read", "", TRUE)

\* C27: in session_preparation of the F5, OneAccess and 6WIND drivers the
\* channel read test is the first thing done on the channel, a base-prompt
\* detection has read its prompt before any terminal-width or paging command is
\* written, and when the method returns clear_buffer was the last thing it did
\* and nothing is left on the channel.
C27_PreparationOrder ==
    (profile \in PrepProfiles /\ call.op = "session_preparation")
        => /\ ChannelLog # <<>> => ChannelLog[1].arg = "test"
           /\ \A i \in DOMAIN log :
                  /\ IsSetupWrite(log[i])
                         => \E j \in 1..(i - 1) : IsPromptRead(log[j])
                  /\ IsPromptRead(log[i])
                         => \E j \in 1..(i - 1) : log[j] = Ev("read", "test", TRUE)
           /\ (pc = "idle" /\ result.status = "ok")
                  => /\ \E i \in DOMAIN log : IsPromptRead(log[i])
                     /\ log[Len(log)].ev = "clear"
                     /\ chan = <<>>

C27_Witness ==
    /\ Ended("oneaccess", "session_preparation")
    /\ result.status = "ok"
    /\ \E i \in DOMAIN log : log[i] = Ev("write", "stty columns 255", FALSE)
    /\ \E i \in DOMAIN log : log[i] = Ev("write", "term len 0", FALSE)
    /\ log[Len(log)] = Ev("clear", "", TRUE)
    /\ chan = <<>>

\* C28: in 6WIND session_preparation ansi_escape_codes is set before anything
\* is read from the channel and before the base prompt is detected: every read
\* of the call is made with the flag on, and no base prompt it records holds an
\* escape character, also when the prompt line came with a control code.
C28_AnsiBeforeDetection ==
    (profile = "sixwind" /\ call.op = "session_preparation")
        => /\ log # <<>> => log[1] = Ev("set", "ansi_escape_codes", TRUE)
           /\ (\E i \in DOMAIN log : IsRead(log[i])) => ansi_escape_codes
           /\ applied.fn = "set_base_prompt"
                  => \A i \in DOMAIN applied.recorded :
                         ~In(ESC, applied.recorded[i])
           /\ (pc = "idle" /\ result.status = "ok") => base_prompt = HostName(profile)

C28_Witness ==
    /\ Ended("sixwind", "session_preparation")
    /\ result.status = "ok"
    /\ log[1] = Ev("set", "ansi_escape_codes", TRUE)
    /\ \E i \in DOMAIN log : log[i] = Ev("write", "", TRUE)
    /\ applied.recorded = <<(<<"vsr">>)>>
    /\ base_prompt = "vsr"

\* a command execution of either strategy has returned
Executed ==
    /\ call.op \in {"send_command", "send_command_timing"}
    /\ pc = "idle"
    /\ result.status = "ok"

\* C21 as stated: the result of a command execution, of either strategy,
\* holds neither the text of the command nor the base prompt of the session.
C21_NoEchoNoPrompt ==
    Executed => (~In(Sent, result.value) /\ ~In(base_prompt, result.value))

\* C21, amended: the result of a command execution, of either strategy, is
\* what the device printed between the echo of the command and the prompt (or
\* nothing, the device having sent nothing): the echo is gone from its start
\* and the prompt from its end, and the command text or the base prompt is in
\* it only where the device's own answer holds it.
C21_EchoAndPromptStripped ==
    Executed
        => /\ result.value \in Answers(profile, Sent) \cup {<<>>}
           /\ \A t \in {Sent, base_prompt} :
                  In(t, result.value)
                      => \E a \in Answers(profile, Sent) : In(t, a)

C21_Witness ==
    /\ Executed
    /\ call.op = "send_command"
    /\ Sent = "show version"
    /\ log[2] = Ev("read", "", TRUE)
    /\ result.value = <<"uptime is", "3 days">>
    /\ ~In(base_prompt, result.value)


\* the locations the documented order of get_template_dir names, in that
\* order, for a call: the NET_TEXTFSM directory (itself, then its templates
\* subdirectory) when the variable is set, the installed ntc-templates when
\* the package can be imported and is not skipped, ~/ntc-templates/templates
Locations(c) ==
    (IF c.env.net_textfsm THEN <<EnvDir, Append(EnvDir, "templates")>> ELSE <<>>)
        \o (IF c.env.package /\ ~c.skip_ntc_package THEN <<PackageDir>> ELSE <<>>)
        \o <<HomeDir>>

\* the first of a sequence of locations that holds an index file, <<>> if none
RECURSIVE FirstWithIndex(_, _)
FirstWithIndex(locations, index) ==
    IF locations = <<>>
    THEN <<>>
    ELSE IF Head(locations) \in index
         THEN Head(locations)
         ELSE FirstWithIndex(Tail(locations), index)

\* get_template_dir has been called
TemplateDirCalled == applied.fn = "get_template_dir"

\* C31: get_template_dir looks in the order NET_TEXTFSM, installed
\* ntc-templates, ~/ntc-templates/templates; it returns the first of these
\* locations that holds an index file, and raises ValueError only if none of
\* them holds one.
C31_FirstLocationWithIndex ==
    TemplateDirCalled
        => LET first == FirstWithIndex(Locations(applied), applied.env.index)
           IN  IF first = <<>>
               THEN applied.outcome = Raised("ValueError")
               ELSE applied.outcome = Returned(Str(first))

\* what get_template_dir does keep: a directory it returns holds an index
\* file, a ValueError is the only way it fails, and with NET_TEXTFSM unset and
\* ntc-templates not importable it returns ~/ntc-templates/templates exactly
\* when that directory holds an index file
TemplateDirReturnedHoldsIndex ==
    TemplateDirCalled
        => /\ applied.outcome.status = "returned"
                  => applied.outcome.value.data \in applied.env.index
           /\ applied.outcome.status = "raised"
                  => applied.outcome.kind = "ValueError"
           /\ (~applied.env.net_textfsm /\ ~applied.env.package)
                  => (applied.outcome = Returned(Str(HomeDir))
                          <=> HomeDir \in applied.env.index)

\* NET_TEXTFSM names a directory without an index file while the installed
\* ntc-templates holds one: ValueError
TemplateDirEnvHidesPackage ==
    /\ TemplateDirCalled
    /\ ~applied.skip_ntc_package
    /\ applied.env = [net_textfsm |-> TRUE, package |-> TRUE, index |-> {PackageDir}]
    /\ applied.outcome = Raised("ValueError")

=============================================================================
